---- MODULE Spec2Model ----
(***************************************************************************)
(* A model of the radicle node service core:                               *)
(*   - the service state machine of radicle-node/src/service.rs (sessions, *)
(*     handshake, message dispatch, routing table, commands, scheduler),   *)
(*   - the relay/broadcast outbox helpers of node/src/service.rs,          *)
(*   - the staging-with-verify fetch of radicle/src/storage/git.rs.        *)
(*                                                                         *)
(* Time is in whole seconds (LocalTime::as_secs, Timestamp = u64 seconds). *)
(* A socket address is identified with its IP: sessions are keyed by IP    *)
(* and the model uses one port per IP.                                     *)
(***************************************************************************)
EXTENDS Integers, Sequences, FiniteSets, TLC

VARIABLES
    sessions,       \* Service.sessions : IpAddr -> Session (NoSession when vacant)
    routing,        \* Service.routing  : Id -> set of NodeId
    peers,          \* Service.peers    : known NodeId -> Peer.last_message
    clock,          \* Service.clock, seconds
    tracking,       \* Config.project_tracking, the Allowed set
    out_of_sync,    \* Service.out_of_sync
    last_idle,      \* Service.last_idle
    last_sync,      \* Service.last_sync
    last_prune,     \* Service.last_prune
    last_announce,  \* Service.last_announce
    outbox,         \* Reactor outbox: Io directives queued and not yet taken
    fetches,        \* calls of storage.fetch / repo.fetch made by the latest input
    reply,          \* what the latest command sent on its reply channel
    results,        \* FetchResults the latest Fetch command sent on its results channel
    blocked,        \* the service thread waits in a send on a full results channel
    crashed,        \* the service thread panicked (an unwrap() of an Err)
    negotiations,   \* history: handshakes accepted by the session record at each IP
    announced,      \* history: <<node, project>> of accepted, validly signed inventories
    canonical,      \* the canonical repository of git.rs fetch: its references
    staging,        \* the staging clone of the fetch in progress
    source,         \* the repository served at the fetched url
    pre,            \* history: the canonical references when fetch was called
    fpc,            \* position of the fetch in progress
    fres,           \* result of the latest fetch
    updates,        \* RefUpdates recorded by the update_tips callback
    heads,          \* the identity head of each remote of the repository, in remote order
    project_result, \* what Repository::project returned for these heads
    key,            \* a public key: its bytes
    encoded,        \* the string to_human / Display made of the key
    decoded,        \* what FromStr made of that string
    config_relay,   \* Config.relay, fixed when the service is constructed
    remote_refs,    \* the references under refs/remotes/<local node>/ of a repository
    sigrefs,        \* the SignedRefs stored at that remote's signature reference
    sign_result     \* what the latest sign_refs on that repository returned

svars == <<sessions, routing, peers, clock, tracking, out_of_sync, last_idle,
           last_sync, last_prune, last_announce, outbox, fetches, reply,
           results, blocked, crashed, negotiations, announced>>
pvars == <<heads, project_result>>
kvars == <<key, encoded, decoded>>
cvars == <<config_relay>>
nvars == <<remote_refs, sigrefs, sign_result>>
gvars == <<canonical, staging, source, pre, fpc, fres, updates, pvars, kvars, cvars, nvars>>
vars == <<svars, gvars>>

----------------------------------------------------------------------------
(* Program constants (radicle-node/src/service.rs:43-51). *)

PROTOCOL_VERSION == 1
TARGET_OUTBOUND_PEERS == 8
IDLE_INTERVAL == 30
ANNOUNCE_INTERVAL == 30
SYNC_INTERVAL == 60
PRUNE_INTERVAL == 1800
MAX_CONNECTION_ATTEMPTS == 3
MAX_TIME_DELTA == 3600

----------------------------------------------------------------------------
(* Bounds of the model. *)

\* The clock value the service is constructed with.
StartTime == 3700
\* A timestamp more than MAX_TIME_DELTA before StartTime, and above 0.
OldTime == 50
\* Attempted is explored while a session's attempt counter is below this cap.
AttemptsCap == 1

None == <<>>
NoId == "none"
IPs == {"ip1", "ip2"}
\* Iteration order of the sessions address book.
IPOrder == <<"ip1", "ip2">>
LocalNode == "n0"
Nodes == {"n1", "n2"}
Projects == {"p1", "p2"}
NetworkMagic == "main"
LocalGit == "g0"
\* The git url a node advertises in its Initialize message.
GitOf(n) == IF n = "n1" THEN "g1" ELSE "g2"
\* Config.connect: the persistent peers.
PersistentPeers == {"ip1"}
\* Config.relay
ConfigRelay == config_relay
\* storage.inventory() of the local node.
LocalInventory == <<"p1">>
\* The tracking policy the service is configured with.
InitTracking == {"p1"}

NoSession == [state |-> "None"]
\* Option<T>: None is the empty sequence, Some(x) the sequence of x.
Some(x) == <<x>>

----------------------------------------------------------------------------
(* Sessions (service/peer.rs is not among the sources: modelled from the    *)
(* specification of the session record).                                   *)

Session_new(link) ==
    [state |-> "Initial", link |-> link, subscribe |-> None, attempts |-> 0,
     id |-> NoId, git |-> NoId]

is_negotiated(s) == s.state = "Negotiated"

Session_attempted(s) == [s EXCEPT !.attempts = @ + 1]

Session_connected(s, link) == [s EXCEPT !.attempts = 0]

is_persistent(addr) == addr \in PersistentPeers

is_tracking(id) == id \in tracking

\* Message::verify / crypto: a signature is modelled by the node whose
\* secret key produced it over exactly this message ("forged" when none did).
verify(node, signature) == signature = node

\* Filter::contains on the stored subscribe filter.
filter_contains(subscribe, id) == id \in subscribe.filter

\* Config::filter: the filter of the Allowed tracking policy.
config_filter == tracking

\* Sessions::negotiated, in address-book order.
RECURSIVE NegotiatedFrom(_, _)
NegotiatedFrom(ss, i) ==
    IF i > Len(IPOrder) THEN <<>>
    ELSE (IF ss[IPOrder[i]] # NoSession /\ is_negotiated(ss[IPOrder[i]])
          THEN <<IPOrder[i]>> ELSE <<>>) \o NegotiatedFrom(ss, i + 1)

negotiated(ss) == NegotiatedFrom(ss, 1)

\* Sessions::by_id: the first session negotiated under the node id.
by_id(ss, id) ==
    LET hits == SelectSeq(negotiated(ss), LAMBDA ip : ss[ip].id = id)
    IN IF hits = <<>> THEN None ELSE Some(Head(hits))

----------------------------------------------------------------------------
(* Messages and Io directives. *)

Initialize(id, version, git) ==
    [type |-> "Initialize", id |-> id, version |-> version, git |-> git]
InventoryAnnouncement(node, inventory, timestamp, signature) ==
    [type |-> "InventoryAnnouncement", node |-> node, inventory |-> inventory,
     timestamp |-> timestamp, signature |-> signature]
RefsAnnouncement(node, id, signature) ==
    [type |-> "RefsAnnouncement", node |-> node, id |-> id, signature |-> signature]
NodeAnnouncement(node, timestamp, signature) ==
    [type |-> "NodeAnnouncement", node |-> node, timestamp |-> timestamp,
     signature |-> signature]
Subscribe(filter, since) ==
    [type |-> "Subscribe", filter |-> filter, since |-> since]

Envelope(magic, msg) == [magic |-> magic, msg |-> msg]

IoWrite(addr, msgs) ==
    [io |-> "Write", addr |-> addr,
     envelopes |-> [i \in 1..Len(msgs) |-> Envelope(NetworkMagic, msgs[i])]]
IoConnect(addr) == [io |-> "Connect", addr |-> addr]
IoDisconnect(addr, reason) == [io |-> "Disconnect", addr |-> addr, reason |-> reason]
IoWakeup(d) == [io |-> "Wakeup", duration |-> d]
IoEvent(e) == [io |-> "Event", event |-> e]

\* gossip::handshake
handshake(timestamp) ==
    << Initialize(LocalNode, PROTOCOL_VERSION, LocalGit),
       NodeAnnouncement(LocalNode, timestamp, LocalNode),
       InventoryAnnouncement(LocalNode, LocalInventory, timestamp, LocalNode),
       Subscribe(config_filter, timestamp) >>

\* u64::saturating_sub
saturating_sub(a, b) == IF a > b THEN a - b ELSE 0

----------------------------------------------------------------------------
(* SessionError and DisconnectReason. *)

NotFound(ip) == [kind |-> "NotFound", value |-> ip]
WrongMagic(m) == [kind |-> "WrongMagic", value |-> m]
WrongVersion(v) == [kind |-> "WrongVersion", value |-> ToString(v)]
InvalidTimestamp(t) == [kind |-> "InvalidTimestamp", value |-> ToString(t)]
Misbehavior == [kind |-> "Misbehavior", value |-> ""]

ReasonUser == [reason |-> "User", error |-> Misbehavior]
ReasonError(err) == [reason |-> "Error", error |-> err]

\* DisconnectReason::is_transient
is_transient(r) == FALSE

----------------------------------------------------------------------------
(* Message dispatch.                                                       *)
(* fx gives, per project, what storage.fetch returns during this call:     *)
(* "Err", "Unchanged" (Ok with no update) or "Updated" (Ok with updates).  *)

FetchCall(id, url) == [project |-> id, url |-> url]

\* Variant of process_inventory that overwrites the entry of a project with
\* the announcing node.
RECURSIVE process_inventory_replacing(_, _, _, _, _, _, _)
process_inventory_replacing(inventory, i, from, remote, rt, fs, fx) ==
    IF i > Len(inventory) THEN [routing |-> rt, fetches |-> fs, panic |-> FALSE]
    ELSE LET proj_id == inventory[i]
             inserted == from \notin rt[proj_id]
             rt2 == [rt EXCEPT ![proj_id] = {from}]
         IN IF inserted /\ is_tracking(proj_id)
            THEN LET fs2 == Append(fs, FetchCall(proj_id, remote))
                 IN IF fx[proj_id] = "Err"
                    THEN [routing |-> rt2, fetches |-> fs2, panic |-> TRUE]
                    ELSE process_inventory_replacing(inventory, i + 1, from, remote,
                                                     rt2, fs2, fx)
            ELSE process_inventory_replacing(inventory, i + 1, from, remote, rt2, fs, fx)

\* Variant of process_inventory that fetches every tracked project listed,
\* already associated with the node or not.
RECURSIVE process_inventory_refetching(_, _, _, _, _, _, _)
process_inventory_refetching(inventory, i, from, remote, rt, fs, fx) ==
    IF i > Len(inventory) THEN [routing |-> rt, fetches |-> fs, panic |-> FALSE]
    ELSE LET proj_id == inventory[i]
             rt2 == [rt EXCEPT ![proj_id] = @ \cup {from}]
         IN IF is_tracking(proj_id)
            THEN LET fs2 == Append(fs, FetchCall(proj_id, remote))
                 IN IF fx[proj_id] = "Err"
                    THEN [routing |-> rt2, fetches |-> fs2, panic |-> TRUE]
                    ELSE process_inventory_refetching(inventory, i + 1, from, remote,
                                                      rt2, fs2, fx)
            ELSE process_inventory_refetching(inventory, i + 1, from, remote, rt2, fs, fx)

\* Service::process_inventory. A failing storage.fetch is unwrapped: panic.
RECURSIVE process_inventory(_, _, _, _, _, _, _)
process_inventory(inventory, i, from, remote, rt, fs, fx) ==
    IF i > Len(inventory) THEN [routing |-> rt, fetches |-> fs, panic |-> FALSE]
    ELSE LET proj_id == inventory[i]
             inserted == from \notin rt[proj_id]
             rt2 == [rt EXCEPT ![proj_id] = @ \cup {from}]
         IN IF inserted /\ is_tracking(proj_id)
            THEN LET fs2 == Append(fs, FetchCall(proj_id, remote))
                 IN IF fx[proj_id] = "Err"
                    THEN [routing |-> rt2, fetches |-> fs2, panic |-> TRUE]
                    ELSE process_inventory(inventory, i + 1, from, remote, rt2, fs2, fx)
            ELSE process_inventory(inventory, i + 1, from, remote, rt2, fs, fx)

\* What handle_message leaves behind: its Result, the state it wrote, the
\* directives it queued and the fetches it invoked.
HOk(relay, ss, rt, ps, out, fs) ==
    [ok |-> TRUE, relay |-> relay, err |-> Misbehavior, panic |-> FALSE,
     sessions |-> ss, routing |-> rt, peers |-> ps, out |-> out, fetches |-> fs]
HErr(err, ss, rt, ps, out, fs) ==
    [ok |-> FALSE, relay |-> None, err |-> err, panic |-> FALSE,
     sessions |-> ss, routing |-> rt, peers |-> ps, out |-> out, fetches |-> fs]
HPanic(ss, rt, ps, out, fs) ==
    [ok |-> FALSE, relay |-> None, err |-> Misbehavior, panic |-> TRUE,
     sessions |-> ss, routing |-> rt, peers |-> ps, out |-> out, fetches |-> fs]

\* Variant of handle_initialize that takes any protocol version.
handle_initialize_any_version(remote, peer, msg) ==
    HOk(None,
        [sessions EXCEPT ![remote] =
            [peer EXCEPT !.state = "Negotiated", !.id = msg.id, !.git = msg.git]],
        routing, peers,
        IF peer.link = "Inbound"
        THEN <<IoWrite(remote, handshake(clock))>> ELSE <<>>,
        <<>>)

\* Variant of handle_initialize that answers with the handshake on a
\* session of either link.
handle_initialize_answering(remote, peer, msg) ==
    IF msg.version # PROTOCOL_VERSION
    THEN HErr(WrongVersion(msg.version), sessions, routing, peers, <<>>, <<>>)
    ELSE HOk(None,
             [sessions EXCEPT ![remote] =
                 [peer EXCEPT !.state = "Negotiated", !.id = msg.id, !.git = msg.git]],
             routing, peers, <<IoWrite(remote, handshake(clock))>>, <<>>)

\* (Initial, Initialize)
handle_initialize(remote, peer, msg) ==
    IF msg.version # PROTOCOL_VERSION
    THEN HErr(WrongVersion(msg.version), sessions, routing, peers, <<>>, <<>>)
    ELSE HOk(None,
             [sessions EXCEPT ![remote] =
                 [peer EXCEPT !.state = "Negotiated", !.id = msg.id, !.git = msg.git]],
             routing, peers,
             IF peer.link = "Inbound"
             THEN <<IoWrite(remote, handshake(clock))>> ELSE <<>>,
             <<>>)

\* Variant of too_far_ahead that tolerates one more second of skew.
too_far_ahead_lenient(timestamp, now) ==
    saturating_sub(timestamp, now) > MAX_TIME_DELTA + 1

\* "Don't allow messages from too far in the future."
too_far_ahead(timestamp, now) == saturating_sub(timestamp, now) > MAX_TIME_DELTA

\* Variant of is_newer that takes a timestamp equal to the last one seen.
is_newer_or_equal(timestamp, last_message) == timestamp >= last_message

\* "Discard inventory messages we've already seen."
is_newer(timestamp, last_message) == timestamp > last_message

\* (Negotiated, InventoryAnnouncement)
handle_inventory(remote, peer, msg, fx) ==
    LET now == clock
        ps1 == IF msg.node \in DOMAIN peers THEN peers
               ELSE [n \in DOMAIN peers \cup {msg.node} |->
                        IF n = msg.node THEN 0 ELSE peers[n]]
    IN IF too_far_ahead(msg.timestamp, now)
       THEN HErr(InvalidTimestamp(msg.timestamp), sessions, routing, ps1, <<>>, <<>>)
       ELSE IF ~is_newer(msg.timestamp, ps1[msg.node])
       THEN HOk(None, sessions, routing, ps1, <<>>, <<>>)
       ELSE LET ps2 == [ps1 EXCEPT ![msg.node] = msg.timestamp]
                pi == process_inventory(msg.inventory, 1, msg.node, peer.git,
                                        routing, <<>>, fx)
            IN IF pi.panic
               THEN HPanic(sessions, pi.routing, ps2, <<>>, pi.fetches)
               ELSE HOk(IF ConfigRelay THEN Some(msg) ELSE None,
                        sessions, pi.routing, ps2, <<>>, pi.fetches)

\* Variant of handle_refs that fetches whether or not the project is tracked.
handle_refs_untracked(remote, peer, msg, fx) ==
    IF verify(msg.node, msg.signature)
    THEN LET fs == <<FetchCall(msg.id, peer.git)>>
         IN IF fx[msg.id] = "Err"
            THEN HPanic(sessions, routing, peers, <<>>, fs)
            ELSE HOk(IF fx[msg.id] = "Updated" THEN Some(msg) ELSE None,
                     sessions, routing, peers,
                     <<IoEvent([from |-> peer.git, project |-> msg.id,
                                updated |-> fx[msg.id] = "Updated"])>>,
                     fs)
    ELSE HErr(Misbehavior, sessions, routing, peers, <<>>, <<>>)

\* Variant of handle_refs that does not check the signature.
handle_refs_unverified(remote, peer, msg, fx) ==
    IF is_tracking(msg.id)
    THEN LET fs == <<FetchCall(msg.id, peer.git)>>
         IN IF fx[msg.id] = "Err"
            THEN HPanic(sessions, routing, peers, <<>>, fs)
            ELSE HOk(IF fx[msg.id] = "Updated" THEN Some(msg) ELSE None,
                     sessions, routing, peers,
                     <<IoEvent([from |-> peer.git, project |-> msg.id,
                                updated |-> fx[msg.id] = "Updated"])>>,
                     fs)
    ELSE HOk(None, sessions, routing, peers, <<>>, <<>>)

\* (Negotiated, RefsAnnouncement)
handle_refs(remote, peer, msg, fx) ==
    IF verify(msg.node, msg.signature)
    THEN IF is_tracking(msg.id)
         THEN LET fs == <<FetchCall(msg.id, peer.git)>>
              IN IF fx[msg.id] = "Err"
                 THEN HPanic(sessions, routing, peers, <<>>, fs)
                 ELSE HOk(IF fx[msg.id] = "Updated" THEN Some(msg) ELSE None,
                          sessions, routing, peers,
                          <<IoEvent([from |-> peer.git, project |-> msg.id,
                                     updated |-> fx[msg.id] = "Updated"])>>,
                          fs)
         ELSE HOk(None, sessions, routing, peers, <<>>, <<>>)
    ELSE HErr(Misbehavior, sessions, routing, peers, <<>>, <<>>)

\* (Negotiated, NodeAnnouncement)
handle_node(remote, peer, msg) ==
    IF ~verify(msg.node, msg.signature)
    THEN HErr(Misbehavior, sessions, routing, peers, <<>>, <<>>)
    ELSE HOk(None, sessions, routing, peers, <<>>, <<>>)

\* (Negotiated, Subscribe)
handle_subscribe(remote, peer, msg) ==
    HOk(None, [sessions EXCEPT ![remote] = [peer EXCEPT !.subscribe = Some(msg)]],
        routing, peers, <<>>, <<>>)

\* Variant of the (Negotiated, Initialize) arm that negotiates again.
renegotiate(remote, peer, msg) == handle_initialize(remote, peer, msg)

\* (Negotiated, Initialize): a redundant handshake.
handle_redundant_initialize(remote, peer, msg) ==
    HErr(Misbehavior, sessions, routing, peers, <<>>, <<>>)

\* Variant of handle_disconnected that still stores a subscribe filter.
handle_disconnected_subscribing(remote, peer, msg) ==
    IF msg.type = "Subscribe"
    THEN HOk(None, [sessions EXCEPT ![remote] = [peer EXCEPT !.subscribe = Some(msg)]],
             routing, peers, <<>>, <<>>)
    ELSE HOk(None, sessions, routing, peers, <<>>, <<>>)

\* (Disconnected, msg): "Ignoring {msg} from disconnected peer".
handle_disconnected(remote, peer, msg) ==
    HOk(None, sessions, routing, peers, <<>>, <<>>)

\* The match on (peer.state, envelope.msg) of Service::handle_message.
dispatch(remote, peer, msg, fx) ==
    CASE peer.state = "Initial" /\ msg.type = "Initialize" ->
            handle_initialize(remote, peer, msg)
      [] peer.state = "Initial" /\ msg.type # "Initialize" ->
            HErr(Misbehavior, sessions, routing, peers, <<>>, <<>>)
      [] peer.state = "Negotiated" /\ msg.type = "InventoryAnnouncement" ->
            handle_inventory(remote, peer, msg, fx)
      [] peer.state = "Negotiated" /\ msg.type = "RefsAnnouncement" ->
            handle_refs(remote, peer, msg, fx)
      [] peer.state = "Negotiated" /\ msg.type = "NodeAnnouncement" ->
            handle_node(remote, peer, msg)
      [] peer.state = "Negotiated" /\ msg.type = "Subscribe" ->
            handle_subscribe(remote, peer, msg)
      [] peer.state = "Negotiated" /\ msg.type = "Initialize" ->
            handle_redundant_initialize(remote, peer, msg)
      [] peer.state = "Disconnected" ->
            handle_disconnected(remote, peer, msg)

\* Variant of magic_ok that lets every magic through.
magic_unchecked(envelope) == TRUE

\* The envelope's magic against the configured network's.
magic_ok(envelope) == envelope.magic = NetworkMagic

\* Service::handle_message
handle_message(remote, envelope, fx) ==
    IF sessions[remote] = NoSession
    THEN HErr(NotFound(remote), sessions, routing, peers, <<>>, <<>>)
    ELSE IF ~magic_ok(envelope)
    THEN HErr(WrongMagic(envelope.magic), sessions, routing, peers, <<>>, <<>>)
    ELSE dispatch(remote, sessions[remote], envelope.msg, fx)

----------------------------------------------------------------------------
(* The reactor interface (Context of node/src/service.rs). *)

\* Context::broadcast: one Write per peer, in the order given.
broadcast(msg, ips) == [i \in 1..Len(ips) |-> IoWrite(ips[i], <<msg>>)]

\* Variant of relay that ignores the subscribe filters.
relay_unfiltered(msg, ips, ss) == broadcast(msg, ips)

\* Context::relay: a RefsAnnouncement goes only to the peers whose stored
\* subscribe filter contains the project; anything else goes to all of them.
relay(msg, ips, ss) ==
    IF msg.type = "RefsAnnouncement"
    THEN broadcast(msg, SelectSeq(ips, LAMBDA ip :
            IF ss[ip].subscribe # None
            THEN filter_contains(ss[ip].subscribe[1], msg.id)
            ELSE FALSE))
    ELSE broadcast(msg, ips)

----------------------------------------------------------------------------
(* Reactor-facing inputs. Every input is taken with the outbox drained:    *)
(* the reactor takes all queued directives before it feeds the next input. *)

Ready == ~crashed /\ ~blocked /\ outbox = <<>>

sched == <<last_idle, last_sync, last_prune, last_announce>>
cmdvars == <<reply, results, blocked>>

\* Service::attempted
Attempted(addr, cap) ==
    /\ Ready
    /\ sessions[addr] # NoSession => sessions[addr].attempts < cap
    /\ sessions' = [sessions EXCEPT ![addr] =
          Session_attempted(IF @ = NoSession THEN Session_new("Outbound") ELSE @)]
    /\ negotiations' = [negotiations EXCEPT ![addr] =
          IF sessions[addr] = NoSession THEN 0 ELSE @]
    /\ fetches' = <<>>
    /\ UNCHANGED <<routing, peers, clock, tracking, out_of_sync, sched, outbox,
                   cmdvars, crashed, announced, gvars>>

\* Service::connected
Connected(addr, link) ==
    /\ Ready
    /\ IF link = "Outbound"
       THEN IF sessions[addr] # NoSession
            THEN /\ outbox' = Append(outbox, IoWrite(addr, handshake(clock)))
                 /\ sessions' = [sessions EXCEPT ![addr] = Session_connected(@, link)]
                 /\ UNCHANGED negotiations
            ELSE UNCHANGED <<outbox, sessions, negotiations>>
       ELSE /\ sessions' = [sessions EXCEPT ![addr] = Session_new("Inbound")]
            /\ negotiations' = [negotiations EXCEPT ![addr] = 0]
            /\ UNCHANGED outbox
    /\ fetches' = <<>>
    /\ UNCHANGED <<routing, peers, clock, tracking, out_of_sync, sched,
                   cmdvars, crashed, announced, gvars>>

\* nakamoto::DisconnectReason: DialError, ConnectionError or Protocol(r).
is_dial_err(reason) == reason.kind = "DialError"

\* Variant of reconnects that does not look at the attempt counter.
reconnects_unbounded(addr, peer, reason) ==
    /\ is_persistent(addr)
    /\ ~is_dial_err(reason)
    /\ reason.kind = "Protocol" => is_transient(reason.protocol)

\* Whether Service::disconnected queues a reconnect.
reconnects(addr, peer, reason) ==
    /\ is_persistent(addr)
    /\ peer.attempts < MAX_CONNECTION_ATTEMPTS
    /\ ~is_dial_err(reason)
    /\ reason.kind = "Protocol" => is_transient(reason.protocol)

\* Service::disconnected
Disconnected(addr, reason) ==
    /\ Ready
    /\ IF sessions[addr] # NoSession
       THEN /\ sessions' = [sessions EXCEPT ![addr] =
                   [@ EXCEPT !.state = "Disconnected", !.id = NoId, !.git = NoId]]
            /\ outbox' = IF reconnects(addr, sessions[addr], reason)
                         THEN Append(outbox, IoConnect(addr)) ELSE outbox
       ELSE UNCHANGED <<sessions, outbox>>
    /\ fetches' = <<>>
    /\ UNCHANGED <<routing, peers, clock, tracking, out_of_sync, sched,
                   cmdvars, crashed, negotiations, announced, gvars>>

\* What Service::received_message queues after handle_message returned h.
\* Variant of received_out that relays to the sender's session as well.
received_out_echoing(addr, h) ==
    IF h.panic THEN <<>>
    ELSE IF h.ok
    THEN IF h.relay # None
         THEN relay(h.relay[1], negotiated(h.sessions), h.sessions)
         ELSE <<>>
    ELSE IF h.err.kind = "NotFound" THEN <<>>
    ELSE <<IoDisconnect(addr, ReasonError(h.err))>>

\* Variant of received_out that treats NotFound as any other session error.
received_out_disconnecting(addr, h) ==
    IF h.panic THEN <<>>
    ELSE IF h.ok
    THEN IF h.relay # None
         THEN relay(h.relay[1],
                    SelectSeq(negotiated(h.sessions), LAMBDA ip : ip # addr),
                    h.sessions)
         ELSE <<>>
    ELSE <<IoDisconnect(addr, ReasonError(h.err))>>

received_out(addr, h) ==
    IF h.panic THEN <<>>
    ELSE IF h.ok
    THEN IF h.relay # None
         THEN relay(h.relay[1],
                    SelectSeq(negotiated(h.sessions), LAMBDA ip : ip # addr),
                    h.sessions)
         ELSE <<>>
    ELSE IF h.err.kind = "NotFound" THEN <<>>
    ELSE <<IoDisconnect(addr, ReasonError(h.err))>>

\* Peer.last_message of a node, 0 (Peer::default) for a node never seen.
last_message(ps, node) == IF node \in DOMAIN ps THEN ps[node] ELSE 0

\* The dispatch that returned h took the inventory announcement: it set
\* peers[node].last_message to the message's timestamp.
inventory_accepted(msg, h) ==
    /\ msg.type = "InventoryAnnouncement"
    /\ last_message(h.peers, msg.node) = msg.timestamp
    /\ last_message(peers, msg.node) # msg.timestamp

\* Service::received_message
ReceivedMessage(addr, envelope, fx) ==
    /\ Ready
    /\ LET h == handle_message(addr, envelope, fx)
       IN /\ sessions' = h.sessions
          /\ routing' = h.routing
          /\ peers' = h.peers
          /\ fetches' = h.fetches
          /\ crashed' = h.panic
          /\ outbox' = outbox \o h.out \o received_out(addr, h)
          /\ negotiations' =
                IF /\ envelope.msg.type = "Initialize"
                   /\ h.ok
                   /\ is_negotiated(h.sessions[addr])
                THEN [negotiations EXCEPT ![addr] = @ + 1]
                ELSE negotiations
          /\ announced' =
                IF /\ inventory_accepted(envelope.msg, h)
                   /\ verify(envelope.msg.node, envelope.msg.signature)
                THEN announced \cup
                     {<<envelope.msg.node, envelope.msg.inventory[i]>> :
                         i \in 1..Len(envelope.msg.inventory)}
                ELSE announced
    /\ UNCHANGED <<clock, tracking, out_of_sync, sched, cmdvars, gvars>>

\* Service::tick
Tick(now) ==
    /\ Ready
    /\ clock' = now
    /\ fetches' = <<>>
    /\ UNCHANGED <<sessions, routing, peers, tracking, out_of_sync, sched, outbox,
                   cmdvars, crashed, negotiations, announced, gvars>>

\* Reactor: Iterator::next on the service takes the first queued directive.
Drain ==
    /\ ~crashed
    /\ outbox # <<>>
    /\ outbox' = Tail(outbox)
    /\ UNCHANGED <<sessions, routing, peers, clock, tracking, out_of_sync, sched,
                   fetches, cmdvars, crashed, negotiations, announced, gvars>>

----------------------------------------------------------------------------
(* Operator commands. *)

\* Iteration order of a routing entry's node ids.
NodeOrder == <<"n1", "n2">>

\* Service::seeds: for each node id of routing[id], the session found by_id.
seeds(id) ==
    LET ns == SelectSeq(NodeOrder, LAMBDA n :
                  n \in routing[id] /\ by_id(sessions, n) # None)
    IN [i \in 1..Len(ns) |-> by_id(sessions, ns[i])[1]]

FetchLookup(lookup, ss) == [cmd |-> "Fetch", lookup |-> lookup, seeds |-> ss]
FetchResult(from, outcome) ==
    [result |-> IF outcome = "Err" THEN "Error" ELSE "Fetched", from |-> from,
     updated |-> outcome = "Updated"]

\* Variant of fetch_results that gives up at the first seed that fails.
RECURSIVE fetch_results_until_error(_, _)
fetch_results_until_error(found, fr) ==
    IF found = <<>> THEN <<>>
    ELSE IF fr[Head(found)] = "Err"
    THEN <<FetchResult(Head(found), "Err")>>
    ELSE <<FetchResult(Head(found), fr[Head(found)])>>
         \o fetch_results_until_error(Tail(found), fr)

\* The loop of Command::Fetch over the seeds: one FetchResult is sent for
\* each seed, whatever repo.fetch returned for the seeds before it.
fetch_results(found, fr) ==
    [i \in 1..Len(found) |-> FetchResult(found[i], fr[found[i]])]

\* Variant of bounded that leaves no room for the last seed's result.
bounded_short(n) == n - 1

\* chan::bounded(cap): the capacity of the results channel.
bounded(n) == n

\* Sender::send of each of msgs in turn on a channel of capacity cap that
\* holds queue. receiver is "held" by an operator who does not read, or
\* "dropped": a send on a full channel waits for room, a send on a channel
\* whose receiver is gone returns an error at once, which .ok() discards.
RECURSIVE send_each(_, _, _, _)
send_each(queue, cap, msgs, receiver) ==
    IF msgs = <<>> THEN [queue |-> queue, blocked |-> FALSE]
    ELSE IF receiver = "dropped" THEN send_each(queue, cap, Tail(msgs), receiver)
    ELSE IF Len(queue) >= cap THEN [queue |-> queue, blocked |-> TRUE]
    ELSE send_each(Append(queue, Head(msgs)), cap, Tail(msgs), receiver)

\* Command::Fetch. open is what storage.repository(id) returns, fr what
\* repo.fetch returns for the url of each seed.
CommandFetch(id, open, fr) ==
    /\ Ready
    /\ IF ~is_tracking(id)
       THEN /\ reply' = <<FetchLookup("NotTracking", <<>>)>>
            /\ results' = <<>> /\ blocked' = FALSE /\ fetches' = <<>>
       ELSE IF seeds(id) = <<>>
       THEN /\ reply' = <<FetchLookup("NotFound", <<>>)>>
            /\ results' = <<>> /\ blocked' = FALSE /\ fetches' = <<>>
       ELSE IF open = "Err"
       THEN /\ reply' = <<FetchLookup("Error", <<>>)>>
            /\ results' = <<>> /\ blocked' = FALSE /\ fetches' = <<>>
       ELSE LET found == seeds(id)
            IN /\ reply' = <<FetchLookup("Found", found)>>
               /\ fetches' = [i \in 1..Len(found) |-> FetchCall(id, found[i])]
               /\ LET sent == send_each(<<>>, bounded(Len(found)),
                                         fetch_results(found, fr), "held")
                  IN results' = sent.queue /\ blocked' = sent.blocked
    /\ UNCHANGED <<sessions, routing, peers, clock, tracking, out_of_sync, sched,
                   outbox, crashed, negotiations, announced, gvars>>

\* Command::Connect
CommandConnect(addr) ==
    /\ Ready
    /\ outbox' = Append(outbox, IoConnect(addr))
    /\ fetches' = <<>>
    /\ UNCHANGED <<sessions, routing, peers, clock, tracking, out_of_sync, sched,
                   cmdvars, crashed, negotiations, announced, gvars>>

\* Config::track on the Allowed policy: whether the id was newly inserted.
config_track(id) == id \notin tracking

\* Config::untrack on the Allowed policy: whether the id was removed.
config_untrack(id) == id \in tracking

\* Variant of CommandTrack that leaves out_of_sync as it was.
track_without_flag(id) ==
    /\ Ready
    /\ tracking' = tracking \cup {id}
    /\ reply' = <<[cmd |-> "Track", value |-> config_track(id)]>>
    /\ fetches' = <<>>
    /\ UNCHANGED <<sessions, routing, peers, clock, out_of_sync, sched, outbox,
                   results, blocked, crashed, negotiations, announced, gvars>>

\* Variant of CommandUntrack that marks the inventory out of sync.
untrack_announcing(id) ==
    /\ Ready
    /\ tracking' = tracking \ {id}
    /\ out_of_sync' = TRUE
    /\ reply' = <<[cmd |-> "Untrack", value |-> config_untrack(id)]>>
    /\ fetches' = <<>>
    /\ UNCHANGED <<sessions, routing, peers, clock, sched, outbox,
                   results, blocked, crashed, negotiations, announced, gvars>>

\* Command::Track / Service::track
CommandTrack(id) ==
    /\ Ready
    /\ out_of_sync' = config_track(id)
    /\ tracking' = tracking \cup {id}
    /\ reply' = <<[cmd |-> "Track", value |-> config_track(id)]>>
    /\ fetches' = <<>>
    /\ UNCHANGED <<sessions, routing, peers, clock, sched, outbox, results, blocked,
                   crashed, negotiations, announced, gvars>>

\* Command::Untrack / Service::untrack
CommandUntrack(id) ==
    /\ Ready
    /\ tracking' = tracking \ {id}
    /\ reply' = <<[cmd |-> "Untrack", value |-> config_untrack(id)]>>
    /\ fetches' = <<>>
    /\ UNCHANGED <<sessions, routing, peers, clock, out_of_sync, sched, outbox,
                   results, blocked, crashed, negotiations, announced, gvars>>

\* Command::AnnounceRefs. open is whether storage.repository(id) and
\* repo.remote(node) succeed; both are unwrapped.
CommandAnnounceRefs(id, open) ==
    /\ Ready
    /\ IF open = "Err"
       THEN crashed' = TRUE /\ UNCHANGED outbox
       ELSE /\ outbox' = outbox \o
                 broadcast(RefsAnnouncement(LocalNode, id, LocalNode),
                           negotiated(sessions))
            /\ UNCHANGED crashed
    /\ fetches' = <<>>
    /\ UNCHANGED <<sessions, routing, peers, clock, tracking, out_of_sync, sched,
                   cmdvars, negotiations, announced, gvars>>

----------------------------------------------------------------------------
(* Periodic tasks. *)

\* Service::announce_inventory
announce_inventory ==
    LET inv == InventoryAnnouncement(LocalNode, LocalInventory, clock, LocalNode)
        ips == negotiated(sessions)
    IN [i \in 1..Len(ips) |-> IoWrite(ips[i], <<inv>>)]

\* Service::maintain_connections: selects no peer yet.
maintain_connections == <<>>

\* Variant of elapsed that waits for more than the interval.
elapsed_strictly(now, last, interval) == saturating_sub(now, last) > interval

elapsed(now, last, interval) == saturating_sub(now, last) >= interval

\* Service::wake. inv is what storage.inventory() returns to the announce
\* task, which unwraps the result of announce_inventory: on an error the
\* service panics after the idle and sync tasks have run.
Wake(inv) ==
    /\ Ready
    /\ LET now == clock
           idle == elapsed(now, last_idle, IDLE_INTERVAL)
           sync == elapsed(now, last_sync, SYNC_INTERVAL)
           announce == elapsed(now, last_announce, ANNOUNCE_INTERVAL)
           prune == elapsed(now, last_prune, PRUNE_INTERVAL)
           panic == announce /\ out_of_sync /\ inv = "Err"
       IN /\ outbox' = outbox
                \o (IF idle THEN maintain_connections \o <<IoWakeup(IDLE_INTERVAL)>>
                    ELSE <<>>)
                \o (IF sync THEN <<IoWakeup(SYNC_INTERVAL)>> ELSE <<>>)
                \o (IF announce /\ ~panic
                    THEN (IF out_of_sync THEN announce_inventory ELSE <<>>)
                         \o <<IoWakeup(ANNOUNCE_INTERVAL)>>
                    ELSE <<>>)
                \o (IF prune /\ ~panic THEN <<IoWakeup(PRUNE_INTERVAL)>> ELSE <<>>)
          /\ last_idle' = IF idle THEN now ELSE last_idle
          /\ last_sync' = IF sync THEN now ELSE last_sync
          /\ last_announce' = IF announce /\ ~panic THEN now ELSE last_announce
          /\ last_prune' = IF prune /\ ~panic THEN now ELSE last_prune
          /\ crashed' = panic
    /\ fetches' = <<>>
    /\ UNCHANGED <<sessions, routing, peers, clock, tracking, out_of_sync,
                   cmdvars, negotiations, announced, gvars>>

----------------------------------------------------------------------------
(* The signed references of one remote (Repository::sign_refs,             *)
(* Repository::references, Repository::remote). A reference map is a set   *)
(* of <<name, oid>> pairs. The signature reference points at the commit    *)
(* that holds the manifest and its signature; every save makes a new one.  *)

\* How many times the references are signed.
MaxSigns == 3

SIGNATURE_REF == "radicle/signature"
BranchNames == {"heads/master", "tags/v1"}
CommitOid(k) == <<"commit", k>>
SignatureOid(k) == <<"signature", k>>
BranchOids == {CommitOid(1), CommitOid(2)}

\* ReadRepository::references: everything matching refs/remotes/<remote>/*.
references == remote_refs

\* The reference map without the signature reference.
without_signature(refs) == {e \in refs : e[1] # SIGNATURE_REF}

\* Refs::signed: the map as given, with the signer's signature over it.
Refs_signed(refs, signer) == [refs |-> refs, signature |-> signer]

\* How many times the signature reference has been written.
saves == IF \E e \in remote_refs : e[1] = SIGNATURE_REF
         THEN (CHOOSE e \in remote_refs : e[1] = SIGNATURE_REF)[2][2]
         ELSE 0

\* SignedRefs::load through ReadRepository::remote: the manifest at the
\* signature reference, an error when the reference is missing.
Repository_remote ==
    IF \E e \in remote_refs : e[1] = SIGNATURE_REF THEN sigrefs ELSE None

\* git::commit on a branch of the remote: the reference is created or moved.
Commit(name, oid) ==
    /\ remote_refs' = {e \in remote_refs : e[1] # name} \cup {<<name, oid>>}
    /\ sign_result' = None
    /\ UNCHANGED <<sigrefs, svars, canonical, staging, source, pre, fpc, fres,
                   updates, pvars, kvars, cvars>>

\* Repository::sign_refs by the local signer. saved is whether signing and
\* saving succeed.
Repository_sign_refs(saved) ==
    /\ saves < MaxSigns
    /\ LET signed_refs == Refs_signed(references, LocalNode)
       IN IF saved
          THEN /\ sigrefs' = Some(signed_refs)
               /\ remote_refs' = without_signature(remote_refs)
                                   \cup {<<SIGNATURE_REF, SignatureOid(saves + 1)>>}
               /\ sign_result' = Some(signed_refs)
          ELSE /\ sign_result' = None
               /\ UNCHANGED <<sigrefs, remote_refs>>
    /\ UNCHANGED <<svars, canonical, staging, source, pre, fpc, fres,
                   updates, pvars, kvars, cvars>>

SignIdle == remote_refs = {} /\ sigrefs = None /\ sign_result = None

----------------------------------------------------------------------------
(* Inputs the specifications draw from. *)

Links == {"Inbound", "Outbound"}
FetchOutcomes == {"Err", "Unchanged", "Updated"}
OtherMagic == "deadbeef"
Forged == "forged"

\* now + MAX_TIME_DELTA is the latest acceptable timestamp at StartTime.
LatestTime == StartTime + MAX_TIME_DELTA
Timestamps == {OldTime, LatestTime, LatestTime + 1}

\* The node id the peer at an address presents in its Initialize message.
IdOf(ip) == IF ip = "ip1" THEN "n1" ELSE "n2"

InitializeMsgs(ids) ==
    {Initialize(n, v, GitOf(n)) : n \in ids, v \in {PROTOCOL_VERSION, PROTOCOL_VERSION + 1}}
\* Announcements naming n1 list an untracked and a tracked project and come
\* with every timestamp and signature; the one naming n2 is validly signed.
InventoryMsgs ==
    {InventoryAnnouncement("n1", <<"p2", "p1">>, t, sig) :
        t \in Timestamps, sig \in {"n1", Forged}}
    \cup {InventoryAnnouncement("n2", <<"p1">>, LatestTime, "n2")}
RefsMsgs ==
    UNION {{RefsAnnouncement(n, p, n), RefsAnnouncement(n, p, Forged)} :
              n \in Nodes, p \in Projects}
NodeMsgs == {NodeAnnouncement("n1", StartTime, sig) : sig \in {"n1", Forged}}
\* The filter a peer subscribes with: one covers the tracked project, the
\* other does not.
FilterOf(ip) == IF ip = "ip1" THEN {"p1"} ELSE {"p2"}
SubscribeMsgs(ip) == {Subscribe(FilterOf(ip), StartTime)}

\* One message of each kind arrives under a foreign magic as well.
ForeignEnvelopes ==
    {Envelope(OtherMagic, m) : m \in
        {Initialize("n1", PROTOCOL_VERSION, GitOf("n1")),
         InventoryAnnouncement("n1", <<"p2", "p1">>, LatestTime, "n1"),
         RefsAnnouncement("n1", "p1", "n1"),
         NodeAnnouncement("n1", StartTime, "n1"),
         Subscribe({"p1"}, StartTime)}}

\* What the peer at an address may send.
EnvelopesFrom(ip) ==
    {Envelope(NetworkMagic, m) : m \in
        InitializeMsgs({IdOf(ip)}) \cup InventoryMsgs \cup RefsMsgs \cup NodeMsgs
        \cup SubscribeMsgs(ip)}
    \cup ForeignEnvelopes

\* What storage.fetch may return during the dispatch of a message: any
\* outcome where the caller reads the update list, failure or success
\* where it only unwraps it.
FetchChoices(msg) ==
    CASE msg.type = "RefsAnnouncement" -> {[p \in Projects |-> o] : o \in FetchOutcomes}
      [] msg.type = "InventoryAnnouncement" ->
            {[p \in Projects |-> o] : o \in {"Err", "Unchanged"}}
      [] OTHER -> {[p \in Projects |-> "Unchanged"]}

Reasons ==
    {[kind |-> "DialError", protocol |-> ReasonUser],
     [kind |-> "ConnectionError", protocol |-> ReasonUser],
     [kind |-> "Protocol", protocol |-> ReasonUser],
     [kind |-> "Protocol", protocol |-> ReasonError(Misbehavior)]}

----------------------------------------------------------------------------
(* The service as constructed by Service::new. *)

----------------------------------------------------------------------------
(* The git repository of one project (radicle/src/storage/git.rs). A       *)
(* repository holds the references of one remote: the named heads, each    *)
(* absent or at an object id, and the signature reference, absent or       *)
(* holding the signed reference list.                                      *)

Absent == "absent"
Oids == {"o1", "o2"}
Names == {"master"}

Repo(refs, signed) == [refs |-> refs, signed |-> signed]
EmptyRepo == Repo([n \in Names |-> Absent], None)
RefMaps == [Names -> Oids \cup {Absent}]
Repos == {Repo(r, g) : r \in RefMaps, g \in {None} \cup {Some(m) : m \in RefMaps}}

\* Variant of Repository_verify that does not compare a reference's target
\* with the signed one.
verify_without_targets(repo, identity_ok) ==
    LET present == {n \in Names : repo.refs[n] # Absent}
    IN IF repo.signed = None
       THEN IF present # {} THEN "InvalidRemote" ELSE "Ok"
       ELSE LET signed == repo.signed[1]
            IN IF \E n \in present : signed[n] = Absent THEN "UnknownRef"
               ELSE IF \E n \in Names \ present : signed[n] # Absent THEN "MissingRef"
               ELSE IF ~identity_ok THEN "Identity"
               ELSE "Ok"

\* Variant of Repository_verify that does not look for signed references
\* the repository lacks.
verify_without_missing(repo, identity_ok) ==
    LET present == {n \in Names : repo.refs[n] # Absent}
    IN IF repo.signed = None
       THEN IF present # {} THEN "InvalidRemote" ELSE "Ok"
       ELSE LET signed == repo.signed[1]
            IN IF \E n \in present : signed[n] = Absent THEN "UnknownRef"
               ELSE IF \E n \in present : signed[n] # repo.refs[n]
               THEN "InvalidRefTarget"
               ELSE IF ~identity_ok THEN "Identity"
               ELSE "Ok"

\* Variant of Repository_verify that reports a reference the signed map
\* lacks as an invalid target.
verify_unknown_as_target(repo, identity_ok) ==
    LET present == {n \in Names : repo.refs[n] # Absent}
    IN IF repo.signed = None
       THEN IF present # {} THEN "InvalidRemote" ELSE "Ok"
       ELSE LET signed == repo.signed[1]
            IN IF \E n \in present : signed[n] # repo.refs[n]
               THEN "InvalidRefTarget"
               ELSE IF \E n \in Names \ present : signed[n] # Absent THEN "MissingRef"
               ELSE IF ~identity_ok THEN "Identity"
               ELSE "Ok"

\* Repository::verify. identity_ok is whether the remote's identity history
\* verifies.
Repository_verify(repo, identity_ok) ==
    LET present == {n \in Names : repo.refs[n] # Absent}
    IN IF repo.signed = None
       THEN IF present # {} THEN "InvalidRemote" ELSE "Ok"
       ELSE LET signed == repo.signed[1]
            IN IF \E n \in present : signed[n] = Absent THEN "UnknownRef"
               ELSE IF \E n \in present : signed[n] # repo.refs[n]
               THEN "InvalidRefTarget"
               ELSE IF \E n \in Names \ present : signed[n] # Absent THEN "MissingRef"
               ELSE IF ~identity_ok THEN "Identity"
               ELSE "Ok"

\* remote.fetch of refs/remotes/*:refs/remotes/* with FetchPrune::Off:
\* what src has is written over dst, what only dst has stays.
fetch_keep(dst, src) ==
    Repo([n \in Names |-> IF src.refs[n] # Absent THEN src.refs[n] ELSE dst.refs[n]],
         IF src.signed # None THEN src.signed ELSE dst.signed)

\* remote.fetch with FetchPrune::On: what src lacks is deleted from dst.
fetch_prune(dst, src) == Repo(src.refs, src.signed)

\* RefUpdate::from(name, old, new): the kind of movement of a tip, none
\* being the zero object id.
RefUpdate_from(name, old, new, none) ==
    [name |-> name,
     kind |-> IF old = none THEN "Created"
              ELSE IF new = none THEN "Deleted"
              ELSE "Updated"]

\* Variant of ref_updates that does not report the signature reference.
ref_updates_without_signature(old, new) ==
    IF old.refs["master"] # new.refs["master"]
    THEN <<RefUpdate_from("master", old.refs["master"], new.refs["master"], Absent)>>
    ELSE <<>>

\* The update_tips callback: one RefUpdate per reference the fetch changed.
ref_updates(old, new) ==
    (IF old.refs["master"] # new.refs["master"]
     THEN <<RefUpdate_from("master", old.refs["master"], new.refs["master"], Absent)>>
     ELSE <<>>)
    \o (IF old.signed # new.signed
        THEN <<RefUpdate_from("signature", old.signed, new.signed, None)>>
        ELSE <<>>)

\* A fetch that failed part-way wrote some of the references and not others.
partial_fetches(old, new) ==
    {Repo(r, g) : r \in {old.refs, new.refs}, g \in {old.signed, new.signed}}

----------------------------------------------------------------------------
(* The identity branches of a repository's remotes. Commits form a graph:  *)
(* a root r with the chain r - a - c, a second child b of r, the merge m   *)
(* of a and b, and a root u of an unrelated history.                       *)

Commits == {"r", "a", "c", "b", "m", "u"}
Parents ==
    [x \in Commits |->
        CASE x = "a" -> {"r"}
          [] x = "c" -> {"a"}
          [] x = "b" -> {"r"}
          [] x = "m" -> {"a", "b"}
          [] OTHER -> {}]

\* A remote whose identity branch is missing: Doc::head returns None.
NoHead == "nohead"

\* The commits reachable from x, x included.
RECURSIVE ancestors(_)
ancestors(x) == {x} \cup UNION {ancestors(y) : y \in Parents[x]}

\* git2 Repository::merge_base: the common ancestor that no other common
\* ancestor descends from, None (the NotFound error) when the histories
\* share no commit. The graph has no pair with two such ancestors.
merge_base(x, y) ==
    LET common == ancestors(x) \cap ancestors(y)
        best == {z \in common : \A w \in common \ {z} : z \notin ancestors(w)}
    IN IF common = {} THEN None ELSE Some(CHOOSE z \in best : TRUE)

ProjectOk(oid) == [kind |-> "Ok", oid |-> oid]
ProjectErr(kind) == [kind |-> kind, oid |-> NoId]
NoResult == ProjectErr("none")

\* Variant of project_loop that takes the first head without comparing.
RECURSIVE project_loop_unchecked(_, _)
project_loop_unchecked(hs, longest) ==
    IF hs = <<>> THEN ProjectOk(longest)
    ELSE LET head == Head(hs)
             base == merge_base(head, longest)
         IN IF base # None /\ base[1] = longest
            THEN project_loop_unchecked(Tail(hs), head)
            ELSE project_loop_unchecked(Tail(hs), longest)

\* The loop of Repository::project over the heads left after the pop.
RECURSIVE project_loop(_, _)
project_loop(hs, longest) ==
    IF hs = <<>> THEN ProjectOk(longest)
    ELSE LET head == Head(hs)
             base == merge_base(head, longest)
         IN IF base = None THEN ProjectErr("Git")
            ELSE IF base[1] = longest THEN project_loop(Tail(hs), head)
            ELSE IF base[1] = head \/ head = longest
            THEN project_loop(Tail(hs), longest)
            ELSE ProjectErr("BranchesDiverge")

\* Repository::project. loaded is whether Doc::load_at finds the document
\* at the head it is given.
Repository_project(hs, loaded) ==
    IF \E i \in DOMAIN hs : hs[i] = NoHead THEN ProjectErr("Panic")
    ELSE IF hs = <<>> THEN ProjectErr("InvalidState")
    ELSE LET r == project_loop(SubSeq(hs, 1, Len(hs) - 1), hs[Len(hs)])
         IN IF r.kind = "Ok" /\ ~loaded THEN ProjectErr("NotFound") ELSE r

\* Repository::project is called on the repository.
Project(loaded) ==
    /\ project_result = NoResult
    /\ project_result' = Repository_project(heads, loaded)
    /\ UNCHANGED <<heads, canonical, staging, source, pre, fpc, fres, updates,
                   svars, kvars, cvars, nvars>>

\* Repository::project has not been called, on a repository without remotes.
ProjectIdle == heads = <<>> /\ project_result = NoResult

----------------------------------------------------------------------------
(* Public keys and their text form (radicle/src/crypto.rs). A key is its   *)
(* byte array; a string is a sequence of characters. multibase::encode     *)
(* with Base58Btc writes the base code 'z' and the base58 digits of the    *)
(* bytes in the bitcoin alphabet; multibase::decode reads them back.       *)

\* The length of the byte array of a key ([u8; 32] in the source).
KeyLen == 3

\* The byte values keys are made of.
ByteValues == {0, 1, 57, 58, 255}

Keys == [1..KeyLen -> ByteValues]

Alphabet ==
    << "1", "2", "3", "4", "5", "6", "7", "8", "9",
       "A", "B", "C", "D", "E", "F", "G", "H", "J", "K", "L", "M", "N", "P", "Q",
       "R", "S", "T", "U", "V", "W", "X", "Y", "Z",
       "a", "b", "c", "d", "e", "f", "g", "h", "i", "j", "k", "m", "n", "o", "p",
       "q", "r", "s", "t", "u", "v", "w", "x", "y", "z" >>

Reverse(q) == [i \in 1..Len(q) |-> q[Len(q) + 1 - i]]

\* The number of leading elements of q equal to x.
RECURSIVE leading(_, _)
leading(q, x) ==
    IF q = <<>> \/ Head(q) # x THEN 0 ELSE 1 + leading(Tail(q), x)

Repeat(x, n) == [i \in 1..n |-> x]

\* One step of the radix conversion: the digits ds (least significant
\* first, in the target base) are multiplied by mul and carry is added.
RECURSIVE carry_through(_, _, _, _)
carry_through(ds, carry, mul, base) ==
    IF ds = <<>>
    THEN IF carry = 0 THEN <<>>
         ELSE <<carry % base>> \o carry_through(<<>>, carry \div base, mul, base)
    ELSE LET c == carry + Head(ds) * mul
         IN <<c % base>> \o carry_through(Tail(ds), c \div base, mul, base)

\* The digits of input (most significant first, base mul) in the target
\* base, least significant first and without leading zero digits.
RECURSIVE radix(_, _, _, _)
radix(input, acc, mul, base) ==
    IF input = <<>> THEN acc
    ELSE radix(Tail(input), carry_through(acc, Head(input), mul, base), mul, base)

\* Variant of to_human that does not write the leading zero bytes.
to_human_without_zeros(bytes) ==
    LET digits == Reverse(radix(bytes, <<>>, 256, 58))
    IN <<"z">> \o [i \in 1..Len(digits) |-> Alphabet[digits[i] + 1]]

\* PublicKey::to_human and Display: multibase::encode(Base58Btc, bytes).
\* Each leading zero byte is written as the digit '1'.
to_human(bytes) ==
    LET digits == Reverse(radix(bytes, <<>>, 256, 58) \o Repeat(0, leading(bytes, 0)))
    IN <<"z">> \o [i \in 1..Len(digits) |-> Alphabet[digits[i] + 1]]

KeyOk(bytes) == [ok |-> TRUE, bytes |-> bytes, error |-> "none"]
KeyErr(error) == [ok |-> FALSE, bytes |-> <<>>, error |-> error]

\* FromStr for PublicKey: multibase::decode, then the length check of the
\* conversion into [u8; 32].
from_str(str) ==
    IF str = <<>> \/ Head(str) # "z" THEN KeyErr("Multibase")
    ELSE LET chars == Tail(str)
         IN IF \E i \in DOMAIN chars : \A d \in DOMAIN Alphabet : Alphabet[d] # chars[i]
            THEN KeyErr("Multibase")
            ELSE LET vals == [i \in DOMAIN chars |->
                                 (CHOOSE d \in DOMAIN Alphabet : Alphabet[d] = chars[i]) - 1]
                     bytes == Reverse(radix(vals, <<>>, 58, 256)
                                      \o Repeat(0, leading(chars, "1")))
                 IN IF Len(bytes) # KeyLen THEN KeyErr("InvalidLength")
                    ELSE KeyOk(bytes)

NoString == <<>>
NotDecoded == KeyErr("none")

\* input.to_string()
Encode ==
    /\ encoded = NoString
    /\ encoded' = to_human(key)
    /\ UNCHANGED <<key, decoded, canonical, staging, source, pre, fpc, fres, updates,
                   pvars, svars, cvars, nvars>>

\* PublicKey::from_str(&encoded)
Decode ==
    /\ encoded # NoString
    /\ decoded = NotDecoded
    /\ decoded' = from_str(encoded)
    /\ UNCHANGED <<key, encoded, canonical, staging, source, pre, fpc, fres, updates,
                   pvars, svars, cvars, nvars>>

\* No key is being converted.
KeyIdle == key = [i \in 1..KeyLen |-> 0] /\ encoded = NoString /\ decoded = NotDecoded

\* No fetch is in progress.
RepoIdle ==
    /\ staging = EmptyRepo /\ source = EmptyRepo /\ pre = EmptyRepo
    /\ fpc = "idle" /\ fres = "none" /\ updates = <<>>

\* WriteRepository::fetch is entered with the url of a remote repository;
\* tempfile::tempdir()? is its first fallible step.
Fetch_tempdir(remote, ok) ==
    /\ fpc = "idle"
    /\ source' = remote
    /\ pre' = canonical
    /\ updates' = <<>>
    /\ IF ok THEN fpc' = "clone" /\ fres' = "none"
       ELSE fpc' = "done" /\ fres' = "TempDir"
    /\ UNCHANGED <<canonical, staging, svars, pvars, kvars, cvars, nvars>>

\* RepoBuilder::clone of the canonical repository into the staging copy.
\* The clone takes the references its default refspec selects: all of the
\* canonical ones (mirror) or none of them.
Fetch_clone(ok, mirror) ==
    /\ fpc = "clone"
    /\ IF ok
       THEN /\ staging' = IF mirror THEN canonical ELSE EmptyRepo
            /\ fpc' = "fetch" /\ UNCHANGED fres
       ELSE fpc' = "done" /\ fres' = "Clone" /\ UNCHANGED staging
    /\ UNCHANGED <<canonical, source, pre, updates, svars, pvars, kvars, cvars, nvars>>

\* staging_repo.remote_anonymous(&url)?.fetch(refs, prune Off)?
Fetch_remote(ok) ==
    /\ fpc = "fetch"
    /\ IF ok
       THEN /\ staging' = fetch_keep(staging, source)
            /\ fpc' = "verify" /\ UNCHANGED fres
       ELSE /\ staging' \in partial_fetches(staging, fetch_keep(staging, source))
            /\ fpc' = "done" /\ fres' = "Fetch"
    /\ UNCHANGED <<canonical, source, pre, updates, svars, pvars, kvars, cvars, nvars>>

\* Repository { backend: staging_repo }.verify()?
Fetch_verify(identity_ok) ==
    /\ fpc = "verify"
    /\ LET r == Repository_verify(staging, identity_ok)
       IN IF r = "Ok" THEN fpc' = "promote" /\ UNCHANGED fres
          ELSE fpc' = "done" /\ fres' = r
    /\ UNCHANGED <<canonical, staging, source, pre, updates, svars, pvars, kvars, cvars, nvars>>

\* self.backend.remote_anonymous(staging)?.fetch(refs, prune On)?
Fetch_promote(ok) ==
    /\ fpc = "promote"
    /\ IF ok
       THEN /\ canonical' = fetch_prune(canonical, staging)
            /\ fres' = "Ok"
       ELSE /\ canonical' \in partial_fetches(canonical, fetch_prune(canonical, staging))
            /\ fres' = "Promote"
    /\ updates' = ref_updates(canonical, canonical')
    /\ fpc' = "done"
    /\ UNCHANGED <<staging, source, pre, svars, pvars, kvars, cvars, nvars>>

\* fetch returns; the staging copy goes with its temporary directory.
Fetch_return ==
    /\ fpc = "done"
    /\ fpc' = "idle" /\ fres' = "none"
    /\ staging' = EmptyRepo /\ source' = EmptyRepo /\ pre' = EmptyRepo
    /\ updates' = <<>>
    /\ UNCHANGED <<canonical, svars, pvars, kvars, cvars, nvars>>

ServiceInit ==
    /\ sessions = [ip \in IPs |-> NoSession]
    /\ routing = [p \in Projects |-> {}]
    /\ peers = <<>>
    /\ clock = StartTime
    /\ tracking = InitTracking
    /\ out_of_sync = FALSE
    /\ last_idle = 0 /\ last_sync = 0 /\ last_prune = 0 /\ last_announce = 0
    /\ outbox = <<>>
    /\ fetches = <<>>
    /\ reply = <<>>
    /\ results = <<>>
    /\ blocked = FALSE
    /\ crashed = FALSE
    /\ negotiations = [ip \in IPs |-> 0]
    /\ announced = {}


\* The node relays what it accepts.
RelayOn == config_relay = TRUE

Init ==
    /\ ServiceInit /\ RelayOn
    /\ canonical = EmptyRepo /\ RepoIdle /\ ProjectIdle /\ KeyIdle /\ SignIdle

\* Message dispatch and the session life cycle.
Next ==
    \/ Attempted("ip1", AttemptsCap)
    \/ Connected("ip1", "Outbound")
    \/ \E addr \in IPs : Connected(addr, "Inbound")
    \/ \E addr \in IPs, reason \in Reasons : Disconnected(addr, reason)
    \/ \E addr \in IPs : \E envelope \in EnvelopesFrom(addr) :
          \E fx \in FetchChoices(envelope.msg) : ReceivedMessage(addr, envelope, fx)
    \/ \E id \in Projects, open \in {"Ok", "Err"} : CommandAnnounceRefs(id, open)
    \/ Drain

Spec == Init /\ [][Next]_vars

\* What peers send while commands are served: a handshake under either
\* node id from either address, and each node's signed inventory.
CmdEnvelopes ==
    {Envelope(NetworkMagic, m) : m \in
        InitializeMsgs(Nodes)
        \cup {InventoryAnnouncement(n, <<"p1">>, LatestTime, n) : n \in Nodes}}

\* What repo.fetch returns for the url of each seed.
SeedOutcomes == [IPs -> FetchOutcomes]

\* Commands, served between the inputs that build sessions and routing.
NextCmd ==
    \/ \E addr \in IPs : Connected(addr, "Inbound")
    \/ \E addr \in IPs, envelope \in CmdEnvelopes :
          ReceivedMessage(addr, envelope, [p \in Projects |-> "Unchanged"])
    \/ \E id \in Projects : CommandTrack(id)
    \/ \E id \in Projects : CommandUntrack(id)
    \/ \E id \in Projects, open \in {"Ok", "Err"}, fr \in SeedOutcomes :
          CommandFetch(id, open, fr)
    \/ \E addr \in IPs : CommandConnect(addr)
    \/ Drain

SpecCmd == Init /\ [][NextCmd]_vars

\* The times the clock is set to: one announce interval and one sync
\* interval after the start.
TickTimes == {StartTime + ANNOUNCE_INTERVAL, StartTime + SYNC_INTERVAL}

\* How many dials of the persistent peer the reactor reports.
DialCap == 3

\* The handshake the peer at an address opens with.
Hello(ip) ==
    Envelope(NetworkMagic, Initialize(IdOf(ip), PROTOCOL_VERSION, GitOf(IdOf(ip))))

\* The periodic tasks and the session life cycle they act on.
NextSched ==
    \/ Attempted("ip1", DialCap)
    \/ Connected("ip1", "Outbound")
    \/ \E addr \in IPs : Connected(addr, "Inbound")
    \/ \E addr \in IPs, reason \in Reasons : Disconnected(addr, reason)
    \/ \E addr \in IPs :
          ReceivedMessage(addr, Hello(addr), [p \in Projects |-> "Unchanged"])
    \/ CommandTrack("p2")
    \/ CommandUntrack("p2")
    \/ \E now \in TickTimes : Tick(now)
    \/ \E inv \in {"Ok", "Err"} : Wake(inv)
    \/ Drain

SpecSched == Init /\ [][NextSched]_vars

\* Service::lookup, the remote part: the nodes the routing table has for id.
Service_lookup(id) == routing[id]

\* Inventories as they change over time: n1 announces both projects, later
\* only p1, later none; n2 announces p1.
RoutingEnvelopes ==
    {Envelope(NetworkMagic, m) : m \in
        {InventoryAnnouncement("n1", <<"p2", "p1">>, OldTime, "n1"),
         InventoryAnnouncement("n1", <<"p1">>, StartTime, "n1"),
         InventoryAnnouncement("n1", <<>>, LatestTime, "n1"),
         InventoryAnnouncement("n2", <<"p1">>, StartTime, "n2")}}

\* Everything that runs between an announcement and a later lookup:
\* messages, commands, connects, disconnects and the periodic tasks.
NextRouting ==
    \/ \E addr \in IPs : Connected(addr, "Inbound")
    \/ \E addr \in IPs : Disconnected(addr, [kind |-> "ConnectionError", protocol |-> ReasonUser])
    \/ \E addr \in IPs :
          ReceivedMessage(addr, Hello(addr), [p \in Projects |-> "Unchanged"])
    \/ \E addr \in IPs, envelope \in RoutingEnvelopes :
          ReceivedMessage(addr, envelope, [p \in Projects |-> "Unchanged"])
    \/ CommandTrack("p2")
    \/ CommandUntrack("p1")
    \/ Tick(StartTime + PRUNE_INTERVAL)
    \/ Wake("Ok")
    \/ Drain

\* A node of either relay setting.
InitRouting ==
    /\ ServiceInit /\ config_relay \in BOOLEAN
    /\ canonical = EmptyRepo /\ RepoIdle /\ ProjectIdle /\ KeyIdle /\ SignIdle

SpecRouting == InitRouting /\ [][NextRouting]_vars

\* What the peer at an address sends while announcements are relayed: its
\* handshake, its subscription, and validly signed announcements of every
\* type, of either node and of either project.
RelayInputs(addr) ==
    {Hello(addr)} \cup
    {Envelope(NetworkMagic, m) : m \in
        SubscribeMsgs(addr)
        \cup {InventoryAnnouncement(n, <<"p1">>, LatestTime, n) : n \in Nodes}
        \cup {RefsAnnouncement(n, p, n) : n \in Nodes, p \in Projects}
        \cup {NodeAnnouncement("n1", StartTime, "n1")}}

\* Announcements arriving at a node of either relay setting whose peers
\* come, subscribe and go.
NextRelay ==
    \/ \E addr \in IPs : Connected(addr, "Inbound")
    \/ \E addr \in IPs : Disconnected(addr, [kind |-> "ConnectionError", protocol |-> ReasonUser])
    \/ \E addr \in IPs : \E envelope \in RelayInputs(addr) :
          \E fx \in FetchChoices(envelope.msg) : ReceivedMessage(addr, envelope, fx)
    \/ CommandTrack("p2")
    \/ Drain

SpecRelay == InitRouting /\ [][NextRelay]_vars

\* The fetch of a repository, from any canonical repository and any remote.
InitFetch ==
    /\ ServiceInit /\ RelayOn
    /\ canonical \in Repos /\ RepoIdle /\ ProjectIdle /\ KeyIdle /\ SignIdle

NextFetch ==
    \/ \E remote \in Repos, ok \in BOOLEAN : Fetch_tempdir(remote, ok)
    \/ \E ok \in BOOLEAN, mirror \in BOOLEAN : Fetch_clone(ok, mirror)
    \/ \E ok \in BOOLEAN : Fetch_remote(ok)
    \/ \E identity_ok \in BOOLEAN : Fetch_verify(identity_ok)
    \/ \E ok \in BOOLEAN : Fetch_promote(ok)
    \/ Fetch_return

SpecFetch == InitFetch /\ [][NextFetch]_vars

\* How many remotes a repository has.
MaxRemotes == 3

\* The heads of up to MaxRemotes remotes, each at any commit or missing.
HeadLists == UNION {[1..k -> Commits \cup {NoHead}] : k \in 0..MaxRemotes}

\* The canonical head of a repository, for any heads of its remotes.
InitProject ==
    /\ ServiceInit /\ RelayOn /\ canonical = EmptyRepo /\ RepoIdle
    /\ heads \in HeadLists
    /\ project_result = NoResult
    /\ KeyIdle /\ SignIdle

NextProject == \E loaded \in BOOLEAN : Project(loaded)

SpecProject == InitProject /\ [][NextProject]_vars

\* The text form of any key, written and read back.
InitKeys ==
    /\ ServiceInit /\ RelayOn /\ canonical = EmptyRepo /\ RepoIdle /\ ProjectIdle
    /\ key \in Keys
    /\ encoded = NoString
    /\ decoded = NotDecoded
    /\ SignIdle

NextKeys == Encode \/ Decode

SpecKeys == InitKeys /\ [][NextKeys]_vars


\* A remote whose branches are committed to and signed, again and again.
InitSign ==
    /\ ServiceInit /\ RelayOn /\ canonical = EmptyRepo /\ RepoIdle /\ ProjectIdle
    /\ KeyIdle /\ SignIdle

NextSign ==
    \/ \E name \in BranchNames, oid \in BranchOids : Commit(name, oid)
    \/ \E saved \in BOOLEAN : Repository_sign_refs(saved)

SpecSign == InitSign /\ [][NextSign]_vars

----------------------------------------------------------------------------
(* Properties of the repository fetch, checked under SpecFetch.            *)

\* What fetch returns when it fails before the fetch into the canonical
\* repository: the tempdir, the clone, the fetch into staging, verify.
EarlyFailures ==
    {"TempDir", "Clone", "Fetch",
     "InvalidRemote", "UnknownRef", "InvalidRefTarget", "MissingRef", "Identity"}

\* Every head of the repository is signed at its target and every signed
\* head is in the repository.
WellSigned(repo) ==
    IF repo.signed = None
    THEN \A n \in Names : repo.refs[n] = Absent
    ELSE \A n \in Names : repo.signed[1][n] = repo.refs[n]

\* C1: while a fetch has not reached its last step, and after it failed in
\* the tempdir, the clone, the fetch into staging or verify, the canonical
\* repository has the references it had before the call; the canonical
\* repository differs from that only after the staging copy verified.
C1_FetchAtomic ==
    /\ fpc \in {"clone", "fetch", "verify", "promote"} => canonical = pre
    /\ (fpc = "done" /\ fres \in EarlyFailures) => canonical = pre
    /\ (fpc = "done" /\ canonical # pre) =>
          /\ fres \in {"Ok", "Promote"}
          /\ WellSigned(staging)

\* verify refused a staging copy that the remote had changed, and the
\* canonical repository, not empty, is as it was.
C1_Witness ==
    /\ fpc = "done"
    /\ fres = "InvalidRefTarget"
    /\ staging # pre
    /\ canonical = pre
    /\ canonical # EmptyRepo

----------------------------------------------------------------------------
(* Properties of message dispatch, checked under Spec.                     *)

\* Some storage outcome makes the step the receipt of envelope from addr.
RecvStep(addr, envelope) ==
    \E fx \in FetchChoices(envelope.msg) : ReceivedMessage(addr, envelope, fx)

NegotiatedAt(addr) == sessions[addr] # NoSession /\ is_negotiated(sessions[addr])

InventoryEnvelopes == {Envelope(NetworkMagic, m) : m \in InventoryMsgs}

\* No Write among the directives out.
NoWrite(out) == \A i \in DOMAIN out : out[i].io # "Write"

\* The directives out hold a Disconnect of addr for an error of this kind.
DisconnectsFor(out, addr, kind) ==
    \E i \in DOMAIN out :
        /\ out[i].io = "Disconnect"
        /\ out[i].addr = addr
        /\ out[i].reason.reason = "Error"
        /\ out[i].reason.error.kind = kind

\* C2: a node id is in routing[P] only if an InventoryAnnouncement naming
\* that node, listing P and carrying a signature that verifies against the
\* node was processed earlier.
C2_RoutingOnlyFromSignedInventory ==
    \A P \in Projects : \A n \in routing[P] : <<n, P>> \in announced

RefsToUnsubscribed(out, ss) ==
    \E i \in DOMAIN out :
        /\ out[i].io = "Write"
        /\ \E j \in DOMAIN out[i].envelopes :
              LET m == out[i].envelopes[j].msg
                  sub == ss[out[i].addr].subscribe
              IN /\ m.type = "RefsAnnouncement"
                 /\ \/ sub = None
                    \/ ~filter_contains(sub[1], m.id)

\* C4 (as stated): no Write produced by the service, by relay or by any
\* command, carries a RefsAnnouncement for project p to a peer whose stored
\* subscribe filter does not contain p.
C4_NoRefsToUnsubscribed == ~RefsToUnsubscribed(outbox, sessions)

\* C4 (amended): no Write produced by the relay of a received message
\* carries a RefsAnnouncement for project p to a peer whose stored
\* subscribe filter does not contain p, or that stored no filter: a step
\* that leaves such a Write in the outbox is not the receipt of a message.
C4_RelayHonoursFilter ==
    [][RefsToUnsubscribed(outbox', sessions') =>
          \A addr \in IPs : \A envelope \in EnvelopesFrom(addr) :
              ~RecvStep(addr, envelope)]_vars

\* A RefsAnnouncement from ip2 was relayed to ip1, whose filter has the
\* project; another from ip1 would not reach ip2, whose filter lacks it.
C4_Witness ==
    /\ NegotiatedAt("ip1") /\ NegotiatedAt("ip2")
    /\ sessions["ip1"].subscribe # None
    /\ sessions["ip2"].subscribe # None
    /\ \E i \in DOMAIN outbox :
          /\ outbox[i].io = "Write"
          /\ outbox[i].addr = "ip1"
          /\ outbox[i].envelopes[1].msg.type = "RefsAnnouncement"
          /\ outbox[i].envelopes[1].msg.node \in Nodes

\* C5: on a Negotiated session an InventoryAnnouncement naming n with
\* timestamp t is accepted (peers[n].last_message becomes t and
\* process_inventory runs: every listed project gets n in its routing entry
\* and a tracked one that n is new to is fetched, short of a panic) if and
\* only if
\* t - now <= MAX_TIME_DELTA and t > peers[n].last_message, taken as 0 for a
\* node never seen; otherwise last_message and routing stay as they were,
\* nothing is fetched and nothing is relayed.
C5_TimestampAcceptance ==
    [][\A addr \in IPs : \A envelope \in InventoryEnvelopes :
          (NegotiatedAt(addr) /\ RecvStep(addr, envelope)) =>
             LET m == envelope.msg
                 fresh == /\ m.timestamp - clock <= MAX_TIME_DELTA
                          /\ m.timestamp > last_message(peers, m.node)
             IN IF fresh
                THEN /\ last_message(peers', m.node) = m.timestamp
                     /\ m.node \in routing'[m.inventory[1]]
                     /\ ~crashed' =>
                           \A i \in DOMAIN m.inventory :
                              /\ m.node \in routing'[m.inventory[i]]
                              /\ (/\ is_tracking(m.inventory[i])
                                  /\ m.node \notin routing[m.inventory[i]]) =>
                                    \E k \in DOMAIN fetches' :
                                        fetches'[k].project = m.inventory[i]
                ELSE /\ last_message(peers', m.node) = last_message(peers, m.node)
                     /\ routing' = routing
                     /\ fetches' = <<>>
                     /\ NoWrite(outbox')]_vars

\* The announcement stamped now + MAX_TIME_DELTA has been accepted.
C5_Witness ==
    /\ clock + MAX_TIME_DELTA = LatestTime
    /\ last_message(peers, "n1") = LatestTime
    /\ "n1" \in routing["p1"] /\ "n1" \in routing["p2"]
    /\ fetches # <<>>
    /\ ~crashed

\* C6 (as stated): an InventoryAnnouncement whose timestamp differs from
\* the local clock by more than MAX_TIME_DELTA in either direction is
\* rejected: last_message and routing are not updated, nothing is relayed.
C6_SkewRejectedBothWays ==
    [][\A addr \in IPs : \A envelope \in InventoryEnvelopes :
          (/\ NegotiatedAt(addr)
           /\ \/ envelope.msg.timestamp - clock > MAX_TIME_DELTA
              \/ clock - envelope.msg.timestamp > MAX_TIME_DELTA
           /\ RecvStep(addr, envelope)) =>
             /\ last_message(peers', envelope.msg.node)
                   = last_message(peers, envelope.msg.node)
             /\ routing' = routing
             /\ NoWrite(outbox')]_vars

\* C6 (amended): an InventoryAnnouncement stamped more than MAX_TIME_DELTA
\* after the local clock is rejected: last_message and routing are not
\* updated and nothing is relayed. One stamped more than MAX_TIME_DELTA
\* before the local clock is not rejected for its age: it is accepted when
\* newer than peers[node].last_message.
C6_FutureSkewRejected ==
    [][\A addr \in IPs : \A envelope \in InventoryEnvelopes :
          (NegotiatedAt(addr) /\ RecvStep(addr, envelope)) =>
             LET m == envelope.msg
             IN /\ m.timestamp - clock > MAX_TIME_DELTA =>
                      /\ last_message(peers', m.node) = last_message(peers, m.node)
                      /\ routing' = routing
                      /\ NoWrite(outbox')
                /\ (/\ clock - m.timestamp > MAX_TIME_DELTA
                    /\ m.timestamp > last_message(peers, m.node)) =>
                      last_message(peers', m.node) = m.timestamp]_vars

\* An announcement stamped long ago was taken, and afterwards one stamped
\* a second past now + MAX_TIME_DELTA was refused.
C6_Witness ==
    /\ last_message(peers, "n1") = OldTime
    /\ clock - OldTime > MAX_TIME_DELTA
    /\ \E ip \in IPs :
          outbox = <<IoDisconnect(ip, ReasonError(InvalidTimestamp(LatestTime + 1)))>>

\* C7: an InventoryAnnouncement rejected with InvalidTimestamp drops the
\* message, not the session: no Disconnect is queued for the sender.
C7_InvalidTimestampKeepsSession ==
    \A ip \in IPs : ~DisconnectsFor(outbox, ip, "InvalidTimestamp")

\* C8: an envelope with a foreign magic received on a known session,
\* whatever the session's state and the message's kind, adds
\* Disconnect(addr, Error(WrongMagic(m))) to the outbox, is neither
\* dispatched nor relayed, and leaves routing, peers and the session alone.
C8_WrongMagicDropped ==
    [][\A addr \in IPs : \A envelope \in ForeignEnvelopes :
          (sessions[addr] # NoSession /\ RecvStep(addr, envelope)) =>
             /\ outbox' = outbox \o
                   <<IoDisconnect(addr, ReasonError(WrongMagic(envelope.magic)))>>
             /\ sessions' = sessions
             /\ routing' = routing
             /\ peers' = peers
             /\ fetches' = <<>>]_vars

\* A Negotiated, subscribed session has just been sent a foreign magic.
C8_Witness ==
    \E ip \in IPs :
        /\ NegotiatedAt(ip)
        /\ sessions[ip].subscribe # None
        /\ outbox = <<IoDisconnect(ip, ReasonError(WrongMagic(OtherMagic)))>>

\* C9: once received_message on a known session has ended in WrongMagic,
\* WrongVersion or Misbehavior, the session's state is Disconnected.
C9_ErrorDisconnectsSession ==
    \A ip \in IPs :
        (\E kind \in {"WrongMagic", "WrongVersion", "Misbehavior"} :
            DisconnectsFor(outbox, ip, kind))
        => sessions[ip].state = "Disconnected"

----------------------------------------------------------------------------
(* Properties of the commands, checked under SpecCmd.                      *)

\* The addresses of the Negotiated sessions whose node id is in routing[id].
SeedAddresses(id) == {ip \in IPs : NegotiatedAt(ip) /\ sessions[ip].id \in routing[id]}

\* C10: Command::Fetch(id, reply) sends exactly one FetchLookup: NotTracking
\* if the policy excludes id; else NotFound if no Negotiated session has a
\* node id in routing[id]; else Error if the repository fails to open; else
\* Found with exactly the addresses of the Negotiated sessions whose node id
\* is in routing[id]. Nothing is fetched in the first three cases.
C10_FetchLookup ==
    [][\A id \in Projects, open \in {"Ok", "Err"}, fr \in SeedOutcomes :
          CommandFetch(id, open, fr) =>
             LET lookup == IF ~is_tracking(id) THEN "NotTracking"
                           ELSE IF SeedAddresses(id) = {} THEN "NotFound"
                           ELSE IF open = "Err" THEN "Error"
                           ELSE "Found"
             IN /\ Len(reply') = 1
                /\ reply'[1].lookup = lookup
                /\ lookup = "Found" =>
                      /\ {reply'[1].seeds[i] : i \in DOMAIN reply'[1].seeds}
                            = SeedAddresses(id)
                      /\ Len(reply'[1].seeds) = Cardinality(SeedAddresses(id))
                /\ lookup # "Found" => fetches' = <<>>]_vars

\* C11: after Command::Fetch replied Found with k seeds, k FetchResults are
\* on the results channel, one per seed in seed order, Fetched where the
\* fetch from the seed succeeded and Error where it failed; a failed seed
\* does not stop the seeds after it, queues no directive and leaves every
\* session as it was.
C11_ResultPerSeed ==
    [][(fetches' # <<>> /\ reply' # <<>> /\ reply'[1].cmd = "Fetch") =>
       \A id \in Projects, fr \in SeedOutcomes :
          (/\ is_tracking(id)
           /\ seeds(id) # <<>>
           /\ CommandFetch(id, "Ok", fr)) =>
             LET found == reply'[1].seeds
             IN /\ reply'[1].lookup = "Found"
                /\ Len(results') = Len(found)
                /\ \A i \in DOMAIN found :
                      /\ results'[i].from = found[i]
                      /\ results'[i].result =
                            (IF fr[found[i]] = "Err" THEN "Error" ELSE "Fetched")
                      /\ results'[i].updated = (fr[found[i]] = "Updated")
                /\ outbox' = outbox
                /\ sessions' = sessions]_vars

\* The fetch from the first of two seeds failed and the one from the second
\* went through.
C11_Witness ==
    /\ Len(reply) = 1 /\ reply[1].cmd = "Fetch" /\ reply[1].lookup = "Found"
    /\ Len(reply[1].seeds) = 2
    /\ Len(results) = 2
    /\ results[1].result = "Error"
    /\ results[2].result = "Fetched"

----------------------------------------------------------------------------
(* Properties of the commands and the periodic tasks.                      *)

\* C12: Command::Track(id, reply) replies true exactly when id was not
\* tracked before, which is when the policy changes; when it adds a project
\* it sets out_of_sync; it queues no directive.
C12_TrackReply ==
    [][\A id \in Projects :
          CommandTrack(id) =>
             /\ reply' = <<[cmd |-> "Track", value |-> id \notin tracking]>>
             /\ reply'[1].value <=> tracking' # tracking
             /\ tracking' = tracking \cup {id}
             /\ id \notin tracking => out_of_sync'
             /\ outbox' = outbox]_vars

\* A project was added to the policy: the reply is true and the inventory
\* is marked out of sync.
C12_Witness ==
    /\ reply = <<[cmd |-> "Track", value |-> TRUE]>>
    /\ "p2" \in tracking
    /\ out_of_sync
    /\ outbox = <<>>

\* The directives of outbox that write an announcement of the local
\* inventory.
InventoryWrites(out) ==
    {i \in DOMAIN out :
        /\ out[i].io = "Write"
        /\ \E k \in DOMAIN out[i].envelopes :
              out[i].envelopes[k].msg.type = "InventoryAnnouncement"}

\* C13: Command::Untrack(id, reply) replies true exactly when id was
\* tracked, which is when the policy changes, and leaves the outbox,
\* out_of_sync, the routing table and the sessions as they were; the
\* periodic tasks write an inventory only while out_of_sync is set, and
\* only Track sets it.
C13_UntrackSilent ==
    [][/\ \A id \in Projects :
             CommandUntrack(id) =>
                /\ reply' = <<[cmd |-> "Untrack", value |-> id \in tracking]>>
                /\ reply'[1].value <=> tracking' # tracking
                /\ outbox' = outbox
                /\ out_of_sync' = out_of_sync
                /\ routing' = routing
                /\ sessions' = sessions
       /\ (out_of_sync' /\ ~out_of_sync) => \E id \in Projects : CommandTrack(id)
       /\ (\E inv \in {"Ok", "Err"} : Wake(inv)) /\ InventoryWrites(outbox') # {}
             => out_of_sync]_vars

\* A project was removed from the policy while the inventory was in sync,
\* and the announce task then ran with a session negotiated: it queued
\* nothing but wake-ups.
C13_Witness ==
    /\ reply = <<[cmd |-> "Untrack", value |-> TRUE]>>
    /\ ~out_of_sync
    /\ NegotiatedAt("ip2")
    /\ last_announce = StartTime + ANNOUNCE_INTERVAL
    /\ outbox # <<>>
    /\ \A i \in DOMAIN outbox : outbox[i].io = "Wakeup"

\* The announce task has queued its directives: with out_of_sync set, one
\* Write of one validly signed announcement of the local inventory to each
\* Negotiated session and to no other address, then Wakeup(ANNOUNCE_INTERVAL);
\* with out_of_sync clear, no Write and Wakeup(ANNOUNCE_INTERVAL).
AnnounceQueued ==
    LET writes == {i \in DOMAIN outbox' : outbox'[i].io = "Write"}
    IN /\ \A i \in writes :
             /\ Len(outbox'[i].envelopes) = 1
             /\ outbox'[i].envelopes[1].msg.type = "InventoryAnnouncement"
             /\ outbox'[i].envelopes[1].msg.node = LocalNode
             /\ verify(LocalNode, outbox'[i].envelopes[1].msg.signature)
       /\ \A addr \in IPs :
             Cardinality({i \in writes : outbox'[i].addr = addr})
                = (IF out_of_sync /\ NegotiatedAt(addr) THEN 1 ELSE 0)
       /\ \E j \in DOMAIN outbox' :
             /\ outbox'[j] = IoWakeup(ANNOUNCE_INTERVAL)
             /\ \A i \in writes : i < j

\* C14: when wake() runs with ANNOUNCE_INTERVAL elapsed since last_announce
\* and out_of_sync set, one Write carrying one signed InventoryAnnouncement
\* is queued for each Negotiated session and none for Initial or
\* Disconnected sessions, followed by Wakeup(ANNOUNCE_INTERVAL); with
\* out_of_sync clear only Wakeup(ANNOUNCE_INTERVAL) is queued by the task.
C14_AnnounceTask ==
    [][\A inv \in {"Ok", "Err"} :
          (elapsed(clock, last_announce, ANNOUNCE_INTERVAL) /\ Wake(inv))
             => AnnounceQueued]_vars

\* The same while storage.inventory() succeeds.
AnnounceTaskWithInventory ==
    [][(elapsed(clock, last_announce, ANNOUNCE_INTERVAL) /\ Wake("Ok"))
          => AnnounceQueued]_vars

----------------------------------------------------------------------------
(* Properties of the handshake and of the session life cycle.              *)

\* The handshake bundle written to an address.
IsBundle(w, addr) ==
    /\ w.io = "Write"
    /\ w.addr = addr
    /\ [i \in DOMAIN w.envelopes |-> w.envelopes[i].msg.type]
          = <<"Initialize", "NodeAnnouncement", "InventoryAnnouncement", "Subscribe">>

\* A Write to an address that carries an Initialize message.
SaysHello(w, addr) ==
    /\ w.io = "Write"
    /\ w.addr = addr
    /\ \E k \in DOMAIN w.envelopes : w.envelopes[k].msg.type = "Initialize"

BadlySigned ==
    {Envelope(NetworkMagic, m) : m \in
        {x \in RefsMsgs \cup NodeMsgs : ~verify(x.node, x.signature)}}

\* C16: a RefsAnnouncement or NodeAnnouncement whose signature does not
\* verify, received on a Negotiated session, queues
\* Disconnect(addr, Error(Misbehavior)) and nothing else: no fetch, no
\* RefsFetched event, no relay, and the routing table is unchanged.
C16_BadSignatureIsMisbehavior ==
    [][\A addr \in IPs :
          (outbox = <<>> /\ NegotiatedAt(addr)) =>
             \A envelope \in BadlySigned :
                RecvStep(addr, envelope) =>
                   /\ outbox' = <<IoDisconnect(addr, ReasonError(Misbehavior))>>
                   /\ fetches' = <<>>
                   /\ routing' = routing
                   /\ ~crashed']_vars

\* Both sessions are Negotiated, ip2 subscribed to the project the forged
\* announcement names, and the sender at ip1 is being disconnected for
\* misbehaviour with nothing fetched and nothing written to ip2.
C16_Witness ==
    /\ NegotiatedAt("ip1")
    /\ NegotiatedAt("ip2")
    /\ sessions["ip2"].subscribe # None
    /\ "n1" \in routing["p1"]
    /\ outbox = <<IoDisconnect("ip1", ReasonError(Misbehavior))>>
    /\ fetches = <<>>

\* C17: disconnected(addr, reason) on a known session queues Connect(addr)
\* exactly when addr is a persistent peer, the session's attempt counter is
\* below MAX_CONNECTION_ATTEMPTS, and the reason is neither a dial error nor
\* a protocol-level reason (User or Error, never transient), which leaves
\* the loss of the connection; otherwise it queues nothing. No reconnect is
\* queued once the counter has reached MAX_CONNECTION_ATTEMPTS.
C17_ReconnectCondition ==
    [][\A addr \in IPs, reason \in Reasons :
          (sessions[addr] # NoSession /\ Disconnected(addr, reason)) =>
             outbox' =
                (IF /\ addr \in PersistentPeers
                    /\ sessions[addr].attempts < MAX_CONNECTION_ATTEMPTS
                    /\ reason.kind = "ConnectionError"
                 THEN <<IoConnect(addr)>>
                 ELSE <<>>)]_vars

\* The persistent peer was dialled twice, its connection was lost and the
\* reconnect is queued.
C17_Witness ==
    /\ sessions["ip1"].state = "Disconnected"
    /\ sessions["ip1"].attempts = MAX_CONNECTION_ATTEMPTS - 1
    /\ outbox = <<IoConnect("ip1")>>

\* The persistent peer is disconnected with its attempts used up and
\* nothing is queued.
AttemptsUsedUp ==
    /\ sessions["ip1"].state = "Disconnected"
    /\ sessions["ip1"].attempts = MAX_CONNECTION_ATTEMPTS
    /\ outbox = <<>>

\* The addresses the idle task could dial: the configured peers without a
\* live session whose attempts are not used up.
Candidates ==
    {addr \in PersistentPeers :
        \/ sessions[addr] = NoSession
        \/ /\ sessions[addr].state = "Disconnected"
           /\ sessions[addr].attempts < MAX_CONNECTION_ATTEMPTS}

\* C18: when the idle task runs (wake() with IDLE_INTERVAL elapsed) while
\* fewer than TARGET_OUTBOUND_PEERS sessions are Negotiated and candidate
\* addresses are known, Connect directives are queued for candidates, and
\* none for a peer whose attempt counter has reached MAX_CONNECTION_ATTEMPTS.
C18_IdleTaskConnects ==
    [][\A inv \in {"Ok", "Err"} :
          (/\ elapsed(clock, last_idle, IDLE_INTERVAL)
           /\ Cardinality({addr \in IPs : NegotiatedAt(addr)}) < TARGET_OUTBOUND_PEERS
           /\ Candidates # {}
           /\ Wake(inv)) =>
             /\ \E i \in DOMAIN outbox' :
                   outbox'[i].io = "Connect" /\ outbox'[i].addr \in Candidates
             /\ \A i \in DOMAIN outbox' :
                   outbox'[i].io = "Connect" =>
                      \/ sessions[outbox'[i].addr] = NoSession
                      \/ sessions[outbox'[i].addr].attempts < MAX_CONNECTION_ATTEMPTS]_vars

----------------------------------------------------------------------------
(* Properties of the repository's verification.                            *)

\* The references of the remote, without the signature reference, as pairs
\* of name and object id.
RefsUnderRemote(repo) == {<<n, repo.refs[n]>> : n \in {m \in Names : repo.refs[m] # Absent}}

\* The entries of the remote's signed map, empty for a remote that has no
\* signature reference.
SignedEntries(repo) ==
    IF repo.signed = None THEN {}
    ELSE {<<n, repo.signed[1][n]>> : n \in {m \in Names : repo.signed[1][m] # Absent}}

\* C19: whenever Repository::verify returns Ok, the references under
\* refs/remotes/<n>/, the signature reference excluded, are exactly the
\* entries of n's signed map: each reference is signed at its object id and
\* each signed entry is a reference of the repository.
C19_VerifiedRefsAreSigned ==
    [][\A identity_ok \in BOOLEAN :
          (Fetch_verify(identity_ok) /\ fpc' = "promote") =>
             RefsUnderRemote(staging) = SignedEntries(staging)]_vars

\* verify has accepted a staging copy that has a signed reference.
C19_Witness ==
    /\ fpc = "promote"
    /\ staging.refs["master"] \in Oids
    /\ staging.signed # None

----------------------------------------------------------------------------
(* Properties of the canonical identity head, checked under SpecProject.   *)

\* One of the two commits is an ancestor of the other, or they are equal.
Related(x, y) == x \in ancestors(y) \/ y \in ancestors(x)

\* Every two heads are related.
OnOneChain(hs) == \A i, j \in DOMAIN hs : Related(hs[i], hs[j])

\* project was called on remotes that all have an identity head, and the
\* document at the head it settled on could be loaded.
ProjectReturned ==
    /\ project_result # NoResult
    /\ project_result.kind \notin {"Panic", "NotFound"}

\* C20: Repository::project returns a canonical head exactly when the
\* identity heads of all remotes lie on one ancestry chain, and then it is
\* the tip of the chain; if two heads are not ancestor-related it returns
\* BranchesDiverge; with no remotes it returns InvalidState.
C20_CanonicalHead ==
    ProjectReturned =>
       /\ project_result.kind = "Ok" <=> (heads # <<>> /\ OnOneChain(heads))
       /\ project_result.kind = "Ok" =>
             /\ \E i \in DOMAIN heads : heads[i] = project_result.oid
             /\ \A i \in DOMAIN heads : heads[i] \in ancestors(project_result.oid)
       /\ ~OnOneChain(heads) => project_result.kind = "BranchesDiverge"
       /\ heads = <<>> => project_result.kind = "InvalidState"

\* The same on heads taken from the histories without a merge: the chain
\* r - a - c and the branch b.
CanonicalHeadWithoutMerges ==
    (\A i \in DOMAIN heads : heads[i] \in {"r", "a", "c", "b"}) => C20_CanonicalHead

----------------------------------------------------------------------------
(* Properties of the routing table.                                        *)

\* C21: no step takes a node out of the lookup of a project: once an
\* accepted inventory announcement has added (p, n), every later lookup of
\* p contains n, whatever commands, messages (later announcements of n that
\* no longer list p among them), connects, disconnects and prune tasks run
\* in between.
C21_RoutingMonotone ==
    [][\A p \in Projects : Service_lookup(p) \subseteq Service_lookup(p)']_vars

\* n1 announced p2 and p1, then an empty inventory which was accepted; its
\* session is gone, the prune task has run, and n1 is still looked up for
\* both projects, next to n2 for p1.
C21_Witness ==
    /\ last_message(peers, "n1") = LatestTime
    /\ Service_lookup("p2") = {"n1"}
    /\ Service_lookup("p1") = {"n1", "n2"}
    /\ sessions["ip1"].state = "Disconnected"
    /\ last_prune = StartTime + PRUNE_INTERVAL

----------------------------------------------------------------------------
(* Properties of the text form of keys, checked under SpecKeys.            *)

\* C22: for every public key k, parsing with FromStr the base58-btc
\* multibase string that to_human / Display made of k yields a key equal
\* to k.
C22_KeyRoundTrip ==
    decoded # NotDecoded => decoded = KeyOk(key)

\* A key that starts with a zero byte and has a zero byte inside has been
\* written and read back.
C22_Witness ==
    /\ decoded = KeyOk(key)
    /\ key[1] = 0
    /\ key[2] = 255
    /\ key[3] = 0

----------------------------------------------------------------------------
(* Properties of the dispatch of single messages, checked under Spec.      *)

\* C23: a message received on an Initial session makes it Negotiated
\* exactly when it is an Initialize of version PROTOCOL_VERSION under the
\* network's magic; an Initialize of another version queues a Disconnect
\* for WrongVersion and any other message one for Misbehavior, and in both
\* cases the session stays as it was, no handshake bundle is written and
\* the routing table is unchanged.
C23_InitialSession ==
    [][\A addr \in IPs :
          (outbox = <<>> /\ sessions[addr].state = "Initial") =>
             \A envelope \in EnvelopesFrom(addr) :
                RecvStep(addr, envelope) =>
                   LET msg == envelope.msg
                       ours == envelope.magic = NetworkMagic
                       hello == msg.type = "Initialize"
                       refused == /\ sessions' = sessions
                                  /\ routing' = routing
                                  /\ \A i \in DOMAIN outbox' : outbox'[i].io # "Write"
                   IN /\ is_negotiated(sessions'[addr])
                         <=> (ours /\ hello /\ msg.version = PROTOCOL_VERSION)
                      /\ (ours /\ hello /\ msg.version # PROTOCOL_VERSION) =>
                            /\ outbox' = <<IoDisconnect(addr,
                                             ReasonError(WrongVersion(msg.version)))>>
                            /\ refused
                      /\ (ours /\ ~hello) =>
                            /\ outbox' = <<IoDisconnect(addr, ReasonError(Misbehavior))>>
                            /\ refused]_vars

\* The Initial session at ip2 has been sent an Initialize of another
\* version while the session at ip1 is Negotiated.
C23_Witness ==
    /\ sessions["ip2"].state = "Initial"
    /\ NegotiatedAt("ip1")
    /\ outbox = <<IoDisconnect("ip2", ReasonError(WrongVersion(PROTOCOL_VERSION + 1)))>>

\* The announcements of references whose signature verifies.
SignedRefs ==
    {Envelope(NetworkMagic, m) : m \in {x \in RefsMsgs : verify(x.node, x.signature)}}

\* The Negotiated sessions other than the one at addr, in relay order.
OtherNegotiated(addr) == SelectSeq(negotiated(sessions), LAMBDA ip : ip # addr)

PassesTimestampChecks(msg) ==
    /\ msg.timestamp <= clock + MAX_TIME_DELTA
    /\ msg.timestamp > last_message(peers, msg.node)

FetchingEnvelopes ==
    InventoryEnvelopes \cup SignedRefs

\* C26: when the storage.fetch started by process_inventory or by a valid
\* RefsAnnouncement fails, the dispatch still completes: the service does
\* not abort, the announcing node is in the routing entry of every listed
\* project, and no Disconnect is queued for the peer.
C26_FetchIsBestEffort ==
    [][\A addr \in IPs :
          (outbox = <<>> /\ NegotiatedAt(addr)) =>
             \A envelope \in FetchingEnvelopes :
                \A fx \in FetchChoices(envelope.msg) :
                   (/\ ReceivedMessage(addr, envelope, fx)
                    /\ \E i \in DOMAIN fetches' : fx[fetches'[i].project] = "Err") =>
                      /\ ~crashed'
                      /\ \A i \in DOMAIN outbox' : outbox'[i].io # "Disconnect"
                      /\ envelope.msg.type = "InventoryAnnouncement" =>
                            \A i \in DOMAIN envelope.msg.inventory :
                               envelope.msg.node \in routing'[envelope.msg.inventory[i]]]_vars

\* What the receipt of a message leaves untouched when it is ignored.
Ignored ==
    /\ outbox' = outbox
    /\ routing' = routing
    /\ peers' = peers
    /\ sessions' = sessions
    /\ fetches' = <<>>
    /\ ~crashed'

\* C27 as stated: any message received on a Disconnected session is
\* ignored: outbox, routing table, peers table and session are unchanged,
\* nothing is fetched and nothing is relayed.
C27_AnyMessageIgnored ==
    [][\A addr \in IPs :
          (outbox = <<>> /\ sessions[addr].state = "Disconnected") =>
             \A envelope \in EnvelopesFrom(addr) :
                RecvStep(addr, envelope) => Ignored]_vars

\* C27, amended: any message under the network's magic received on a
\* Disconnected session is ignored: outbox, routing table, peers table and
\* session are unchanged, nothing is fetched and nothing is relayed; a
\* message under a foreign magic queues a Disconnect for WrongMagic and
\* changes nothing else.
C27_DisconnectedIgnores ==
    [][\A addr \in IPs :
          (outbox = <<>> /\ sessions[addr].state = "Disconnected") =>
             \A envelope \in EnvelopesFrom(addr) :
                RecvStep(addr, envelope) =>
                   IF envelope.magic = NetworkMagic
                   THEN Ignored
                   ELSE /\ outbox' = <<IoDisconnect(addr,
                                         ReasonError(WrongMagic(envelope.magic)))>>
                        /\ routing' = routing
                        /\ peers' = peers
                        /\ sessions' = sessions
                        /\ fetches' = <<>>]_vars

\* The session at ip1 was Negotiated and subscribed and is now
\* Disconnected, the session at ip2 is Negotiated, and nothing is queued:
\* whatever ip1 sends next arrives on a Disconnected session.
C27_Witness ==
    /\ sessions["ip1"].state = "Disconnected"
    /\ sessions["ip1"].subscribe # None
    /\ negotiations["ip1"] > 0
    /\ NegotiatedAt("ip2")
    /\ outbox = <<>>
    /\ fetches = <<>>

\* C28: a message from an address whose IP has no session is dropped: no
\* Io directive is queued (no Disconnect either), no session is created,
\* the routing and peers tables are unchanged and nothing is fetched.
C28_NoSessionDropped ==
    [][\A addr \in IPs :
          (outbox = <<>> /\ sessions[addr] = NoSession) =>
             \A envelope \in EnvelopesFrom(addr) :
                RecvStep(addr, envelope) =>
                   /\ outbox' = <<>>
                   /\ sessions' = sessions
                   /\ sessions'[addr] = NoSession
                   /\ routing' = routing
                   /\ peers' = peers
                   /\ fetches' = <<>>
                   /\ ~crashed']_vars

\* ip2 has no session while ip1 is Negotiated, the routing table is not
\* empty and nothing is queued: a message from ip2 meets NotFound in a
\* service that has something to lose.
C28_Witness ==
    /\ sessions["ip2"] = NoSession
    /\ NegotiatedAt("ip1")
    /\ \E p \in Projects : routing[p] # {}
    /\ outbox = <<>>
    /\ ~crashed

\* The periodic tasks of Service::wake with the last_* field and the
\* interval of each.
Tasks == {"idle", "sync", "announce", "prune"}
LastOf(t) ==
    CASE t = "idle" -> last_idle
      [] t = "sync" -> last_sync
      [] t = "announce" -> last_announce
      [] t = "prune" -> last_prune
IntervalOf(t) ==
    CASE t = "idle" -> IDLE_INTERVAL
      [] t = "sync" -> SYNC_INTERVAL
      [] t = "announce" -> ANNOUNCE_INTERVAL
      [] t = "prune" -> PRUNE_INTERVAL
Due(t) == clock - LastOf(t) >= IntervalOf(t)

\* A call of wake() that returns.
WakeStep == (\E inv \in {"Ok", "Err"} : Wake(inv)) /\ ~crashed'

VerifyStep == fpc = "verify" /\ fpc' # "verify"

\* The staging repository holds the reference n of the remote, and the
\* remote's signed map has no entry for it.
Unsigned(n) ==
    /\ staging.refs[n] # Absent
    /\ staging.signed # None
    /\ staging.signed[1][n] = Absent

\* The staging repository holds the reference n at an object id other than
\* the one the remote signed for it.
WrongTarget(n) ==
    /\ staging.refs[n] # Absent
    /\ staging.signed # None
    /\ staging.signed[1][n] \notin {Absent, staging.refs[n]}

WrongTargetRejected ==
    /\ fpc = "done"
    /\ fres = "InvalidRefTarget"
    /\ WrongTarget("master")

----------------------------------------------------------------------------
(* Properties of the commands that announce and of the relay.              *)

\* The outbox holds one Write of the local node's signed RefsAnnouncement
\* of id for each Negotiated session, and nothing else.
RefsBroadcast(out, id) ==
    /\ \A addr \in IPs :
          Cardinality({i \in DOMAIN out :
                          out[i] = IoWrite(addr, <<RefsAnnouncement(LocalNode, id, LocalNode)>>)})
             = IF NegotiatedAt(addr) THEN 1 ELSE 0
    /\ \A i \in DOMAIN out :
          /\ out[i].io = "Write"
          /\ NegotiatedAt(out[i].addr)
          /\ out[i].envelopes = <<Envelope(NetworkMagic,
                                    RefsAnnouncement(LocalNode, id, LocalNode))>>

\* C31: Command::AnnounceRefs(id) queues one Write per Negotiated session,
\* each carrying the same RefsAnnouncement of id signed by the local signer
\* with node = local node id, and no Write for a session that is Initial or
\* Disconnected.
C31_AnnounceRefs ==
    [][\A id \in Projects : \A open \in {"Ok", "Err"} :
          (outbox = <<>> /\ CommandAnnounceRefs(id, open)) =>
             ~crashed' /\ RefsBroadcast(outbox', id)]_vars

\* The same while the repository and the local remote's signed refs load.
AnnounceRefsWithRemote ==
    [][\A id \in Projects :
          (outbox = <<>> /\ CommandAnnounceRefs(id, "Ok")) =>
             ~crashed' /\ RefsBroadcast(outbox', id)]_vars

\* AnnounceRefs has written its announcement to the Negotiated session at
\* ip1 and not to the session at ip2, which is not Negotiated.
AnnounceRefsSent ==
    /\ NegotiatedAt("ip1")
    /\ sessions["ip2"] # NoSession /\ ~NegotiatedAt("ip2")
    /\ outbox = <<IoWrite("ip1", <<RefsAnnouncement(LocalNode, "p1", LocalNode)>>)>>

\* The addresses the directives out write the single message msg to.
WrittenTo(out, msg) ==
    {ip \in IPs : \E i \in DOMAIN out : out[i] = IoWrite(ip, <<msg>>)}

\* The sessions a message received from addr is relayed to: the other
\* Negotiated ones, and for a RefsAnnouncement those of them whose stored
\* subscribe filter contains the project.
Recipients(addr, msg) ==
    {ip \in IPs \ {addr} :
        /\ NegotiatedAt(ip)
        /\ msg.type = "RefsAnnouncement" =>
              /\ sessions[ip].subscribe # None
              /\ msg.id \in sessions[ip].subscribe[1].filter}

\* C32: a message returned for relay is written once to each of its
\* recipients and to nobody else: never to the address it came from, never
\* to a session that is Initial or Disconnected, a RefsAnnouncement only
\* to the other Negotiated sessions whose stored subscribe filter contains
\* its project, any other announcement to every other Negotiated session.
C32_RelayRecipients ==
    [][\A addr \in IPs :
          (outbox = <<>> /\ NegotiatedAt(addr)) =>
             \A envelope \in RelayInputs(addr) :
                \A fx \in FetchChoices(envelope.msg) :
                   LET h == handle_message(addr, envelope, fx)
                   IN (h.relay # None /\ ~h.panic
                          /\ ReceivedMessage(addr, envelope, fx)) =>
                         /\ h.relay[1] = envelope.msg
                         /\ WrittenTo(outbox', envelope.msg)
                               = Recipients(addr, envelope.msg)
                         /\ \A ip \in IPs :
                               Cardinality({i \in DOMAIN outbox' :
                                   /\ outbox'[i].io = "Write"
                                   /\ outbox'[i].addr = ip}) 
                                  = IF ip \in Recipients(addr, envelope.msg)
                                    THEN 1 ELSE 0]_vars

\* An InventoryAnnouncement received from ip1 was relayed to the Negotiated
\* session at ip2, which has stored no subscribe filter.
C32_Witness ==
    /\ NegotiatedAt("ip1") /\ NegotiatedAt("ip2")
    /\ sessions["ip2"].subscribe = None
    /\ \E i \in DOMAIN outbox :
          /\ outbox[i].io = "Write"
          /\ outbox[i].addr = "ip2"
          /\ Len(outbox[i].envelopes) = 1
          /\ outbox[i].envelopes[1].msg.type = "InventoryAnnouncement"
          /\ outbox[i].envelopes[1].msg.node \in Nodes

\* A RefsAnnouncement of p1 received from ip1 was returned for relay and
\* written to nobody: the filter stored for ip2 lacks p1.
RefsRelayFiltered ==
    /\ NegotiatedAt("ip1") /\ NegotiatedAt("ip2")
    /\ sessions["ip2"].subscribe # None
    /\ fetches # <<>> /\ fetches[1].url = GitOf(sessions["ip1"].id)
    /\ \E i \in DOMAIN outbox :
          outbox[i].io = "Event" /\ outbox[i].event.updated
    /\ \A i \in DOMAIN outbox : outbox[i].io # "Write"

----------------------------------------------------------------------------
(* Properties of the signed references, checked under SpecSign.            *)

\* sign_refs has just returned a value.
Signed == sign_result # None

\* C33: after sign_refs by the local signer, the first time or a repeated
\* time, the SignedRefs loaded for the remote equal the value sign_refs
\* returned, and their ref map equals the references under the remote with
\* the signature reference excluded.
C33_SignedRefsComplete ==
    Signed =>
       /\ Repository_remote = sign_result
       /\ Repository_remote[1].refs = without_signature(references)

\* The loaded SignedRefs equal the returned value after every sign_refs.
SignedRefsLoadBack == Signed => Repository_remote = sign_result

\* The ref map is the references without the signature reference after the
\* first sign_refs on a repository.
FirstSignComplete ==
    (Signed /\ saves = 1) =>
       Repository_remote[1].refs = without_signature(references)

\* sign_refs has run a second time on a repository with a branch.
SignedAgain == Signed /\ saves = 2 /\ without_signature(references) # {}

----------------------------------------------------------------------------
(* Properties of a fetch that succeeded, checked under SpecFetch.          *)

\* The target of a reference of a repository, the signature reference
\* among them: None when the reference is absent.
TargetOf(repo, name) ==
    IF name = "signature" THEN repo.signed
    ELSE (IF repo.refs[name] = Absent THEN None ELSE Some(repo.refs[name]))
RefNames == Names \cup {"signature"}

\* The RefUpdate a movement of a tip from old to new calls for.
Movement(old, new) ==
    IF old = None THEN "Created"
    ELSE IF new = None THEN "Deleted"
    ELSE "Updated"

FetchSucceeded == fpc = "done" /\ fres = "Ok"

FetchPruned ==
    /\ FetchSucceeded
    /\ \E i \in DOMAIN updates : updates[i].kind = "Deleted"

\* A fetch from a source the canonical repository already equals, with
\* references, has succeeded.
FetchedAgain ==
    /\ FetchSucceeded
    /\ pre = source /\ source # EmptyRepo

----------------------------------------------------------------------------
(* Properties of out_of_sync, checked under SpecSched.                     *)

\* The announce task runs in this step and broadcasts the inventory.
AnnounceStep ==
    /\ out_of_sync
    /\ elapsed(clock, last_announce, ANNOUNCE_INTERVAL)
    /\ Wake("Ok")

\* C35: once a Track command has set out_of_sync it stays set until the
\* announce task has emitted the inventory announcement: no command, message
\* or other input in between clears it.
C35_OutOfSyncKept ==
    [][(out_of_sync /\ ~AnnounceStep) => out_of_sync']_vars

\* Only a Track command clears out_of_sync.
OutOfSyncClearedByTrack ==
    [][(out_of_sync /\ ~out_of_sync') => \E id \in Projects : CommandTrack(id)]_vars

\* A second Track of the project has cleared out_of_sync with the first
\* one's announcement still to come.
TrackedTwice ==
    /\ "p2" \in tracking
    /\ ~out_of_sync
    /\ reply = <<[cmd |-> "Track", value |-> FALSE]>>
    /\ last_announce = 0

\* C36: after the announce task has broadcast the inventory announcement
\* out_of_sync is false, so later wake() calls with no policy-changing
\* Track in between queue Wakeup(ANNOUNCE_INTERVAL) only.
C36_AnnounceClearsFlag ==
    [][AnnounceStep => ~out_of_sync']_vars

\* The announce task never changes out_of_sync.
AnnounceKeepsFlag ==
    [][(\E inv \in {"Ok", "Err"} : Wake(inv)) => out_of_sync' = out_of_sync]_vars

\* The inventory was announced at StartTime and, with nothing tracked
\* since, is queued again for the Negotiated session one interval later.
AnnouncedAgain ==
    /\ clock = StartTime + ANNOUNCE_INTERVAL
    /\ last_announce = clock
    /\ out_of_sync
    /\ \E i \in DOMAIN outbox :
          /\ outbox[i].io = "Write"
          /\ outbox[i].envelopes[1].msg.type = "InventoryAnnouncement"
          /\ outbox[i].envelopes[1].msg.timestamp = clock

----------------------------------------------------------------------------
(* Stability of a Negotiated session, checked under Spec.                  *)

\* The session at addr is Negotiated after the step as before, under the
\* same node id and with the subscribe filter it had stored.
SessionKept(addr) ==
    /\ sessions'[addr] # NoSession
    /\ sessions'[addr].state = "Negotiated"
    /\ sessions'[addr].id = sessions[addr].id
    /\ sessions[addr].subscribe # None =>
          sessions'[addr].subscribe = sessions[addr].subscribe

\* C37: a Negotiated session keeps its state, its node id and its stored
\* subscribe filter under every input but a disconnected input for its
\* address: no connected or attempted input for the same IP, message,
\* command, tick or wake resets it or replaces the session record.
C37_NegotiatedStable ==
    [][\A addr \in IPs :
          (NegotiatedAt(addr) /\ ~SessionKept(addr)) =>
             \E reason \in Reasons : Disconnected(addr, reason)]_vars

\* A Negotiated session is lost only to a disconnected input or to a
\* connected input of inbound link for its address.
NegotiatedLostToInbound ==
    [][\A addr \in IPs :
          (NegotiatedAt(addr) /\ ~SessionKept(addr)) =>
             \/ \E reason \in Reasons : Disconnected(addr, reason)
             \/ Connected(addr, "Inbound")]_vars

\* The session at ip2 was Negotiated and is Initial again, without its
\* filter, after another inbound connection from ip2.
Renegotiable ==
    /\ sessions["ip2"] # NoSession
    /\ sessions["ip2"].state = "Initial"
    /\ sessions["ip2"].subscribe = None
    /\ negotiations["ip2"] = 0
    /\ \E p \in Projects : "n2" \in routing[p]

----------------------------------------------------------------------------
(* Validity of the canonical repository across a fetch (SpecFetch).        *)

\* fetch is about to return.
FetchDone == fpc = "done"

\* C38: a canonical repository that satisfied the verification invariant
\* (the references without the signature reference equal the signed map)
\* before fetch satisfies it when fetch returns, whether fetch succeeded or
\* failed.
C38_FetchKeepsValid ==
    (FetchDone /\ WellSigned(pre)) => WellSigned(canonical)

\* The same for every outcome but a failure of the fetch from the staging
\* copy into the canonical repository.
FetchKeepsValidUnlessPromoteFails ==
    (FetchDone /\ WellSigned(pre) /\ fres # "Promote") => WellSigned(canonical)

\* The fetch into a valid, non-empty canonical repository failed while
\* the verified staging copy was being promoted and left the canonical
\* repository with references its signed map does not have.
PromoteFailedHalfway ==
    /\ FetchDone /\ fres = "Promote"
    /\ WellSigned(pre) /\ pre # EmptyRepo
    /\ ~WellSigned(canonical)

----------------------------------------------------------------------------
(* Enumeration order of the remotes in Repository::project (SpecProject).  *)

\* The orders in which remote_ids may enumerate the same identity heads.
Orders(hs) ==
    {[i \in DOMAIN hs |-> hs[f[i]]] :
        f \in {g \in [DOMAIN hs -> DOMAIN hs] : \A i, j \in DOMAIN hs : g[i] = g[j] => i = j}}

\* What project, having returned, would have returned had the remotes been
\* enumerated in the order hs.
SameOutcome(hs) ==
    \/ project_result.kind = "NotFound"
    \/ Repository_project(hs, TRUE) = project_result

\* C39: the outcome of Repository::project, the canonical head or
\* BranchesDiverge, is the same for every order in which the remotes'
\* identity heads are enumerated.
C39_OrderIndependent ==
    ProjectReturned => \A hs \in Orders(heads) : SameOutcome(hs)

\* The same for heads of which each two are one an ancestor of the other.
OrderIndependentOnOneChain ==
    (ProjectReturned /\ OnOneChain(heads)) => \A hs \in Orders(heads) : SameOutcome(hs)

\* project has returned the merge commit as the canonical head of three
\* remotes that another order of enumeration finds diverged.
OrderDecides ==
    /\ heads = <<"a", "b", "m">>
    /\ project_result = ProjectOk("m")
    /\ Repository_project(<<"a", "m", "b">>, TRUE) = ProjectErr("BranchesDiverge")

----------------------------------------------------------------------------
(* The results channel of Command::Fetch, checked under SpecCmd.           *)

\* The latest command was a Fetch that found seeds.
FoundSeeds == reply # <<>> /\ reply[1].cmd = "Fetch" /\ reply[1].lookup = "Found"

\* C40: Command::Fetch never waits on the results channel: the channel has
\* room for one FetchResult per seed and one is sent per seed, so every
\* send completes although the operator reads none of them, and with the
\* receiver dropped every send returns at once.
C40_FetchNeverBlocks ==
    /\ ~blocked
    /\ FoundSeeds =>
          /\ Len(reply[1].seeds) >= 1
          /\ Len(results) = Len(reply[1].seeds)
          /\ Len(results) <= bounded(Len(reply[1].seeds))
          /\ ~send_each(<<>>, bounded(Len(reply[1].seeds)), results, "dropped").blocked

\* A Fetch has found two seeds and both results, of fetches that succeeded,
\* sit unread on the results channel.
C40_Witness ==
    /\ FoundSeeds
    /\ Len(reply[1].seeds) = 2
    /\ Len(results) = 2
    /\ \A i \in DOMAIN results : results[i].result = "Fetched"
    /\ ~blocked

====
